---- MODULE Spec2Model ----
(***************************************************************************)
(* The classroom participation picker of English Genius (App component,    *)
(* MiniStudentPopup, SessionSetup, Quiz, DiaryLog, StudentDashboard and the *)
(* admin console): the session form, the weighted pool, the picker, the     *)
(* decay scorer, the participation ledger (memory, local store with its     *)
(* quota, and cloud collection, with the writes to the collection in        *)
(* flight), the ids of its records, the session leaderboard, the activity   *)
(* record of a quiz run, and the modules of the student dashboard.          *)
(*                                                                         *)
(* Presentational state that no handler reads back (leaderboardVisible,     *)
(* poolSizeDisplay, resetKey, showConfig, studentLoginVisible, isAdmin) is  *)
(* left out.  sessionStorage holds no 'sessionInfo' entry (nothing in the   *)
(* repository writes one), so no session is restored.  The cloud            *)
(* configuration panel (handleCloudConfigSave, handleTestConnection,        *)
(* handleUploadLocalData), handleBaselineComplete, the activities other     *)
(* than Quiz, and the activity records of the remote store are not          *)
(* followed.                                                                *)
(***************************************************************************)
EXTENDS Integers, Sequences, FiniteSets, TLC

VARIABLES
    view,                       \* App: the current View
    sessionInfo,                \* App: the SessionInfo, NoSession for null
    curriculum,                 \* App: [loaded, studentProfiles, featureToggles,
                                \* assignments]; not loaded is null
    participationRecords,       \* App: the ledger in memory
    isCloudConnected,           \* App: initFirebase() succeeded
    dbPermissionError,          \* App: TRUE when the error text is set
    activeStudent,              \* App: the drawn student, Null for none
    remainingPool,              \* App: names not drawn yet, duplicates included
    activeStudentModalVisible,  \* App: the popup is asked for
    popup,                      \* MiniStudentPopup: started, msElapsed, scoreDisplay,
                                \* finalResult
    timeouts,                   \* callbacks handed to setTimeout and not run yet, oldest first
    localStorage,               \* the keys participationRecords, englishGeniusCurriculum and
                                \* activityRecords, whether a configuration is saved, whether
                                \* the quota is reached
    cloud,                      \* the remote store: access, curriculum document, participation
                                \* collection, writes in flight, an error logged for a write
    initStep,                   \* how far the asynchronous init of App has run; "unmounted"
                                \* once React has taken the tree of App down
    setup,                      \* SessionSetup: date and error, NoSetup while not rendered
    activityRecords,            \* App: the activity records in memory
    isStudentMode,              \* App: a student has logged in
    activeStudentName,          \* App: the student who logged in, Null for none
    quiz                        \* Quiz: showResults, and what its effect last ran with

vars == <<view, sessionInfo, curriculum, participationRecords, isCloudConnected,
          dbPermissionError, activeStudent, remainingPool, activeStudentModalVisible,
          popup, timeouts, localStorage, cloud, initStep, setup, activityRecords,
          isStudentMode, activeStudentName, quiz>>

\* The login of a student.
studentLogin == <<isStudentMode, activeStudentName>>

(***************************************************************************)
(* IEEE-754 double arithmetic, as far as the scorer uses it.  A non-negative*)
(* binary number is a record [bits, frac]: bits is its digits, most         *)
(* significant first, and the last frac of them are fractional.             *)
(***************************************************************************)

\* Number of significand bits of a double.
Precision == 53

\* Binary digits worked on at a time by the division and the multiplication.
ChunkBits == 11

Radix == 2 ^ ChunkBits

\* Chunks of fractional digits generated by a division before rounding: 66
\* digits, enough for a quotient of at least 2^-12 to keep a digit beyond its
\* significand, the remainder telling whether more follow.
DivChunks == 6

Zeros(n) == [i \in 1..n |-> 0]

StripLeadingZeros(bits) ==
    LET ones == {i \in 1..Len(bits) : bits[i] = 1}
    IN  IF ones = {} THEN <<>>
        ELSE SubSeq(bits, CHOOSE i \in ones : \A j \in ones : i <= j, Len(bits))

\* Zeros put in front so that bits has at least n digits.
PadLeft(bits, n) == IF Len(bits) >= n THEN bits ELSE Zeros(n - Len(bits)) \o bits

\* bits + 1, one digit longer when every digit is 1.
Increment(bits) ==
    LET n     == Len(bits)
        zeros == {i \in 1..n : bits[i] = 0}
    IN  IF zeros = {} THEN <<1>> \o Zeros(n)
        ELSE LET z == CHOOSE i \in zeros : \A j \in zeros : j <= i
             IN  [i \in 1..n |-> IF i < z THEN bits[i] ELSE IF i = z THEN 1 ELSE 0]

\* Round to nearest, ties to even, keeping Precision significant bits.  sticky
\* says that the exact value has further non-zero digits below those of num.
RoundNearestEven(num, sticky) ==
    LET sig == StripLeadingZeros(num.bits)
        n   == Len(sig)
    IN  IF n <= Precision THEN [bits |-> PadLeft(sig, num.frac), frac |-> num.frac]
        ELSE LET kept    == SubSeq(sig, 1, Precision)
                 guard   == sig[Precision + 1]
                 rest    == sticky \/ \E i \in (Precision + 2)..n : sig[i] = 1
                 up      == guard = 1 /\ (rest \/ kept[Precision] = 1)
                 rounded == IF up THEN Increment(kept) ELSE kept
             IN  [bits |-> PadLeft(rounded \o Zeros(n - Precision), num.frac),
                  frac |-> num.frac]

\* The binary digits of a sequence of digits of radix Radix.
BitsOf(digits) ==
    [i \in 1..(Len(digits) * ChunkBits) |->
        (digits[((i - 1) \div ChunkBits) + 1]
            \div (2 ^ (ChunkBits - 1 - ((i - 1) % ChunkBits)))) % 2]

RECURSIVE BitsToInt(_)
BitsToInt(bits) ==
    IF bits = <<>> THEN 0
    ELSE 2 * BitsToInt(SubSeq(bits, 1, Len(bits) - 1)) + bits[Len(bits)]

\* The first n fractional digits (radix Radix) of r / b, for 0 <= r < b
\* < 2^20, and the remainder.
RECURSIVE LongDivision(_, _, _)
LongDivision(r, b, n) ==
    IF n = 0 THEN [digits |-> <<>>, rem |-> r]
    ELSE LET rest == LongDivision((r * Radix) % b, b, n - 1)
         IN  [digits |-> <<(r * Radix) \div b>> \o rest.digits, rem |-> rest.rem]

\* a / b in double arithmetic, for integers 0 < a < b.
DivDouble(a, b) ==
    LET q == LongDivision(a, b, DivChunks)
    IN  RoundNearestEven([bits |-> BitsOf(q.digits), frac |-> DivChunks * ChunkBits],
                         q.rem # 0)

\* 1 - x in double arithmetic, for a double 0 < x < 1: the exact difference
\* is 2^frac - bits, the complement of the fractional digits plus one.
OneMinusDouble(x) ==
    LET n    == Len(x.bits)
        f    == SubSeq(x.bits, n - x.frac + 1, n)
        diff == Increment([i \in 1..x.frac |-> 1 - f[i]])
    IN  RoundNearestEven([bits |-> SubSeq(diff, Len(diff) - x.frac + 1, Len(diff)),
                          frac |-> x.frac], FALSE)

\* The digits (radix Radix) of digits * k + carry, for 0 <= k < 2^19, from
\* the least significant digit upwards.
RECURSIVE TimesSmall(_, _, _)
TimesSmall(digits, k, carry) ==
    IF digits = <<>> THEN <<carry % Radix, carry \div Radix>>
    ELSE LET n == Len(digits)
             v == digits[n] * k + carry
             upper == TimesSmall(SubSeq(digits, 1, n - 1), k, v \div Radix)
         IN  <<v % Radix>> \o upper

\* The digits of radix Radix of a binary number, least significant first.
DigitsOf(bits) ==
    LET m      == (Len(bits) + ChunkBits - 1) \div ChunkBits
        padded == PadLeft(bits, m * ChunkBits)
    IN  [j \in 1..m |->
            BitsToInt(SubSeq(padded, (m - j) * ChunkBits + 1, (m - j + 1) * ChunkBits))]

\* k * x in double arithmetic, for a small integer k >= 0 and a double x >= 0.
MulDouble(k, x) ==
    LET low     == DigitsOf(x.bits)
        product == TimesSmall([j \in 1..Len(low) |-> low[Len(low) + 1 - j]], k, 0)
        digits  == [j \in 1..Len(product) |-> product[Len(product) + 1 - j]]
    IN  RoundNearestEven([bits |-> PadLeft(StripLeadingZeros(BitsOf(digits)), x.frac),
                          frac |-> x.frac], FALSE)

\* Math.floor of a double x >= 0 (below 2^30).
FloorDouble(x) == BitsToInt(SubSeq(x.bits, 1, Len(x.bits) - x.frac))

(***************************************************************************)
(* Data: rosters, sessions, records.                                        *)
(***************************************************************************)

\* null for a student name.
Null == "null"

\* The rosters: two students of 'Grade 3 O' and three of 'Grade 3 P' stand
\* for the 26 distinct names each of the two rosters holds.
studentsByGrade == [O |-> <<"Amy", "Bo">>, P |-> <<"Cy", "Di", "Ed">>]

Grades == DOMAIN studentsByGrade

\* A period as JavaScript holds it: a number, or (in a record read back from
\* storage) the string of its digits.
NumberPeriod(n) == <<"number", n>>
StringPeriod(n) == <<"string", n>>

\* Number(p) for a period.
Number(p) == p[2]

\* null for sessionInfo.
NoSession == [date |-> "none", grade |-> "none", period |-> NumberPeriod(0)]

\* The periods the session form offers (two stand for 1..7).
Periods == {1}

\* The calendar day the browser runs on where the day does not matter.
SessionDates == {"2024-01-01"}

\* The state of SessionSetup while it is not rendered.
NoSetup == [date |-> "none", error |-> FALSE]

\* The first week of 2024, Monday to Sunday: the text of each day as
\* toISOString and the date input give it, with the year, month and day it
\* is read as.
Week ==
    {[text |-> "2024-01-01", year |-> 2024, month |-> 1, day |-> 1],
     [text |-> "2024-01-02", year |-> 2024, month |-> 1, day |-> 2],
     [text |-> "2024-01-03", year |-> 2024, month |-> 1, day |-> 3],
     [text |-> "2024-01-04", year |-> 2024, month |-> 1, day |-> 4],
     [text |-> "2024-01-05", year |-> 2024, month |-> 1, day |-> 5],
     [text |-> "2024-01-06", year |-> 2024, month |-> 1, day |-> 6],
     [text |-> "2024-01-07", year |-> 2024, month |-> 1, day |-> 7]}

WeekDates == {d.text : d \in Week}

\* Days from 1970-01-01 to the day of the proleptic Gregorian calendar.
daysFromEpoch(year, month, day) ==
    LET y   == IF month <= 2 THEN year - 1 ELSE year
        era == y \div 400
        yoe == y - era * 400
        mp  == IF month > 2 THEN month - 3 ELSE month + 9
        doy == (153 * mp + 2) \div 5 + day - 1
        doe == yoe * 365 + yoe \div 4 - yoe \div 100 + doy
    IN  era * 146097 + doe - 719468

\* new Date(dateStr + 'T00:00:00Z').getUTCDay(): 0 for Sunday to 6 for
\* Saturday; 1970-01-01 was a Thursday.
getUTCDay(dateStr) ==
    LET d == CHOOSE w \in Week : w.text = dateStr
    IN  (daysFromEpoch(d.year, d.month, d.day) + 4) % 7

\* The sessions the session form can start for the grades taught.
Sessions(grades) ==
    [date : SessionDates, grade : grades, period : {NumberPeriod(n) : n \in Periods}]

(***************************************************************************)
(* Weighted pool generator.                                                 *)
(***************************************************************************)

\* curriculum.studentProfiles.find(p => p.name === student)?.isSpecialNeeds,
\* as a truth value: the first profile of that name decides.
isSpecialNeeds(studentProfiles, student) ==
    LET found == {i \in 1..Len(studentProfiles) : studentProfiles[i].name = student}
    IN  IF found = {} THEN FALSE
        ELSE LET profile == studentProfiles[CHOOSE i \in found : \A j \in found : i <= j]
             IN  "isSpecialNeeds" \in DOMAIN profile /\ profile.isSpecialNeeds

\* A pool in which a flagged student is entered three times.
RECURSIVE buildPool_threeEntries(_, _)
buildPool_threeEntries(studentList, studentProfiles) ==
    IF studentList = <<>> THEN <<>>
    ELSE LET student == Head(studentList)
             entries == IF isSpecialNeeds(studentProfiles, student)
                        THEN <<student, student, student>>
                        ELSE <<student>>
         IN  entries \o buildPool_threeEntries(Tail(studentList), studentProfiles)

\* The forEach of resetPicker: every student once, a flagged one three more times.
RECURSIVE buildPool(_, _)
buildPool(studentList, studentProfiles) ==
    IF studentList = <<>> THEN <<>>
    ELSE LET student == Head(studentList)
             entries == IF isSpecialNeeds(studentProfiles, student)
                        THEN <<student, student, student, student>>
                        ELSE <<student>>
         IN  entries \o buildPool(Tail(studentList), studentProfiles)

Swap(pool, i, j) == [pool EXCEPT ![i] = pool[j], ![j] = pool[i]]

\* The loop of shuffleArray from index i down: every pool some choice of the
\* random indices j <= i leads to (indices from 1 here, from 0 in the source).
RECURSIVE shuffleFrom(_, _)
shuffleFrom(pools, i) ==
    IF i <= 1 THEN pools
    ELSE shuffleFrom({Swap(pool, i, j) : pool \in pools, j \in 1..i}, i - 1)

\* shuffleArray(array): the set of its possible results.
shuffleArray(array) == shuffleFrom({array}, Len(array))

\* The pools resetPicker may set for a session and a loaded curriculum.
resetPickerPools(session, studentProfiles) ==
    shuffleArray(buildPool(studentsByGrade[session.grade], studentProfiles))

(***************************************************************************)
(* Decay scorer.                                                            *)
(***************************************************************************)

\* gracePeriod and totalDecayTime of the score effect, in milliseconds.
gracePeriod == 3000
totalDecayTime == 180000

\* The score effect of MiniStudentPopup for msElapsed = ms:
\* Math.max(0, Math.floor(1000 * (1 - timeInDecay / decayWindow))).
\* From timeInDecay >= decayWindow on the quotient is at least 1, the
\* difference and the product are at most 0, and Math.max yields 0.
newScore(ms) ==
    LET timeInDecay == ms - gracePeriod
        decayWindow == totalDecayTime - gracePeriod
    IN  IF ms <= gracePeriod THEN 1000
        ELSE IF timeInDecay >= decayWindow THEN 0
        ELSE FloorDouble(MulDouble(1000, OneMinusDouble(DivDouble(timeInDecay, decayWindow))))

\* A bonus rounded to the nearest integer instead of truncated.
bonusOf_rounded(scoreDisplay) == (scoreDisplay + 5) \div 10

\* Math.floor(scoreDisplay * 0.10): 0.10 is the double nearest to 1/10.
bonusOf(scoreDisplay) == FloorDouble(MulDouble(scoreDisplay, DivDouble(1, 10)))

(***************************************************************************)
(* Session aggregator.                                                      *)
(***************************************************************************)

\* A filter that takes the records of every period of the day and grade.
inSession_anyPeriod(r, session) ==
    /\ r.date = session.date
    /\ r.grade = session.grade
    /\ "isCorrect" \in DOMAIN r
    /\ r.isCorrect

\* Every record counted as one point.
pointsOf_one(r) == 1

\* The filter of leaderboardData; a record without isCorrect is not truthy.
inSession(r, session) ==
    /\ r.date = session.date
    /\ r.grade = session.grade
    /\ Number(r.period) = Number(session.period)
    /\ "isCorrect" \in DOMAIN r
    /\ r.isCorrect

\* r.score !== undefined ? r.score : 1
pointsOf(r) == IF "score" \in DOMAIN r THEN r.score ELSE 1

KeepInSession(records, session) ==
    SelectSeq(records, LAMBDA r : inSession(r, session))

\* The forEach over sessionRecords: the entries of scores in insertion order.
RECURSIVE sumScores(_, _)
sumScores(sessionRecords, scores) ==
    IF sessionRecords = <<>> THEN scores
    ELSE LET r    == Head(sessionRecords)
             at   == {i \in 1..Len(scores) : scores[i].name = r.studentName}
             next == IF at = {}
                     THEN Append(scores, [name |-> r.studentName, score |-> pointsOf(r)])
                     ELSE LET i == CHOOSE k \in at : TRUE
                          IN  [scores EXCEPT ![i].score = @ + pointsOf(r)]
         IN  sumScores(Tail(sessionRecords), next)

\* The entries left in the order of insertion.
sortByScore_unsorted(entries, sorted) == sorted \o entries

\* Array.prototype.sort((a, b) => b.score - a.score): stable, by insertion.
RECURSIVE InsertByScore(_, _)
InsertByScore(sorted, e) ==
    IF sorted = <<>> THEN <<e>>
    ELSE IF Head(sorted).score >= e.score
         THEN <<Head(sorted)>> \o InsertByScore(Tail(sorted), e)
         ELSE <<e>> \o sorted

RECURSIVE sortByScore(_, _)
sortByScore(entries, sorted) ==
    IF entries = <<>> THEN sorted
    ELSE sortByScore(Tail(entries), InsertByScore(sorted, Head(entries)))

\* The useMemo leaderboardData for a ledger and a session.
leaderboardOf(records, session) ==
    IF session = NoSession THEN <<>>
    ELSE sortByScore(sumScores(KeepInSession(records, session), <<>>), <<>>)

leaderboardData == leaderboardOf(participationRecords, sessionInfo)

(***************************************************************************)
(* Bounds of the model.                                                     *)
(***************************************************************************)

\* Records the ledger may hold before a further judgment or quiz answer is taken.
MaxRecords == 2

\* Callbacks that may wait in setTimeout at once.
MaxTimeouts == 1

\* Ticks a timer may run in the application specification.
MaxTicks == 1

\* Student profiles the curriculum may hold.
MaxProfiles == 1

\* The grade taught where the whole application is followed.
TaughtGrades == {"O"}

\* Student profiles the curriculum may hold where the pool alone is followed.
MaxPoolProfiles == 2

\* Records and pending callbacks followed together when a remote store is
\* configured.
MaxCloudRecords == 1

\* Documents the remote collection may hold, written or in flight, before a
\* further record is logged with the remote store in use.
MaxCloudDocuments == 2

\* Ticks one timer may run when a single draw is followed: past the end of
\* the decay.
MaxTimerTicks == 1805

\* Records and pending callbacks followed together for a single draw.
MaxTimerRecords == 3

\* Records of a ledger found in local storage where the leaderboard alone is
\* followed.
MaxLedger == 3

\* Records the ledger may hold where the teacher keeps picking.
MaxPickerRecords == 4

\* Records the ledger may hold where the display delay is followed.
MaxDelayRecords == 3

\* Records the ledger may hold where a remote store was configured after
\* records had been logged locally.
MaxMigratedRecords == 2

\* Records the ledger may hold where the clock is followed.
MaxClockRecords == 4

\* Activity records the application may hold where the runs of a quiz are
\* followed, and records the ledger may hold there.
MaxActivityRecords == 3
MaxQuizRecords == 2

\* Module assignments the curriculum may hold where the dashboard is followed.
MaxAssignments == 1

\* Records the ledger may hold where Reset Session is followed.
MaxResetRecords == 3

\* Records the ledger may hold where the quota of local storage is followed.
MaxQuotaRecords == 3

\* Draws followed, and ticks each timer runs, where the teacher goes round
\* the class.
MaxRounds == 5
MaxRoundTicks == 20

(***************************************************************************)
(* Storage.                                                                 *)
(***************************************************************************)

\* A local-storage item: absent (getItem gives null), the empty text, text
\* that is no JSON (such as '{not valid json'), or JSON of a value.
Absent == [state |-> "absent", value |-> <<>>]
Empty == [state |-> "empty", value |-> <<>>]
Malformed == [state |-> "malformed", value |-> <<>>]
Json(value) == [state |-> "json", value |-> value]

\* A parse without the try: the SyntaxError of JSON.parse comes out.
safeJSONParse_noCatch(item, fallback) ==
    IF item.state \in {"absent", "empty"} THEN fallback
    ELSE IF item.state = "malformed" THEN <<[thrown |-> "SyntaxError"]>>
    ELSE item.value

\* safeJSONParse(item, fallback): the fallback for a null or empty item and
\* for text JSON.parse throws on, the parsed value otherwise.
safeJSONParse(item, fallback) ==
    IF item.state \in {"absent", "empty"} THEN fallback
    ELSE IF item.state = "malformed" THEN fallback
    ELSE item.value

\* The keys of Curriculum.featureToggles.
FeatureToggles ==
    {"writingChecker", "grammarPractice", "readingComprehension", "coverTheBasics",
     "learnToWrite", "guidedWriting", "textLeveler", "reportCard", "vocabularyPractice",
     "spellingStation", "diaryLog"}

\* defaultCurriculum, as far as followed.
defaultCurriculum ==
    [loaded |-> TRUE, studentProfiles |-> <<>>,
     featureToggles |-> [feature \in FeatureToggles |-> TRUE], assignments |-> <<>>]

getParticipationRecordsFromStorage == safeJSONParse(localStorage.participationRecords, <<>>)

getActivityRecordsFromStorage == safeJSONParse(localStorage.activityRecords, <<>>)

\* getCurriculum(), as far as studentProfiles go: savedData.studentProfiles || [],
\* and the featureToggles and assignments of the default curriculum: no
\* installation followed has any of these saved.
getCurriculum ==
    [defaultCurriculum EXCEPT
       !.studentProfiles = safeJSONParse(localStorage.curriculum, <<>>)]

\* What getCurriculum() leaves in local storage: the default curriculum when
\* nothing was saved.
storageAfterGetCurriculum ==
    IF localStorage.curriculum.state = "absent"
    THEN [localStorage EXCEPT !.curriculum = Json(<<>>)]
    ELSE localStorage

\* getCurriculum() throws: nothing was saved, and the setItem of the default
\* curriculum, which nothing catches, finds the quota reached.
getCurriculumThrows == localStorage.curriculum.state = "absent" /\ localStorage.full

\* isCloudConnected && !dbPermissionError
cloudEnabled == isCloudConnected /\ ~dbPermissionError

\* The number of characters of each name.
NameLength == [Amy |-> 3, Bo |-> 2, Cy |-> 2, Di |-> 2, Ed |-> 2]

\* The number of characters studentProfiles take in JSON.stringify(curriculum)
\* between '[' and ']': {"name":"Amy","isSpecialNeeds":true} or ...false for
\* a profile (a profile without the flag has no such member), likewise
\* ,"baselineTaken":true, and a comma between two profiles.
RECURSIVE profilesLength(_)
profilesLength(studentProfiles) ==
    IF studentProfiles = <<>> THEN 0
    ELSE LET profile == Head(studentProfiles)
             flag    == IF "isSpecialNeeds" \notin DOMAIN profile THEN 0
                        ELSE IF profile.isSpecialNeeds THEN 18 + 4 ELSE 18 + 5
             taken   == IF "baselineTaken" \notin DOMAIN profile THEN 0
                        ELSE IF profile.baselineTaken THEN 17 + 4 ELSE 17 + 5
             comma   == IF Len(studentProfiles) > 1 THEN 1 ELSE 0
         IN  11 + NameLength[profile.name] + flag + taken + comma
             + profilesLength(Tail(studentProfiles))

\* localStorage.setItem(CURRICULUM_KEY, ...) throws QuotaExceededError: the
\* quota is reached and the text is longer than the text it replaces.  Where
\* the quota is reached, no operation followed changes the curriculum but in
\* its studentProfiles.
curriculumQuotaExceeded(newCurriculum) ==
    /\ localStorage.full
    /\ \/ localStorage.curriculum.state # "json"
       \/ profilesLength(newCurriculum.studentProfiles)
              > profilesLength(localStorage.curriculum.value)

\* saveCurriculum(curriculum): the error of setItem is caught and shown in an
\* alert (or logged), and the item is left as it was.
saveCurriculum(newCurriculum) ==
    localStorage' =
        IF curriculumQuotaExceeded(newCurriculum) THEN localStorage
        ELSE [localStorage EXCEPT !.curriculum = Json(newCurriculum.studentProfiles)]

\* saveParticipationRecordsToStorage(records) throws QuotaExceededError: the
\* quota is reached and the ledger, of count records, holds more records
\* than the stored one.
participationQuotaExceeded(count) ==
    /\ localStorage.full
    /\ count > Len(getParticipationRecordsFromStorage)

(***************************************************************************)
(* MiniStudentPopup.                                                        *)
(***************************************************************************)

NoResult == [kind |-> "none", base |-> 0, bonus |-> 0, total |-> 0]
IncorrectResult == [kind |-> "incorrect", base |-> 0, bonus |-> 0, total |-> 0]

\* The useState initial values of MiniStudentPopup.
FreshPopup == [started |-> FALSE, msElapsed |-> 0, scoreDisplay |-> 1000,
finalResult |-> NoResult]

\* The floating tracker bar (Pick Name, Refill Pool, Reset Session) is rendered.
trackerVisible(v, session) ==
    ~isStudentMode /\ session # NoSession /\ v \notin {"landing", "sessionSetup"}

\* MiniStudentPopup is rendered.
popupMounted(v, session, visible, student) ==
    trackerVisible(v, session) /\ visible /\ student # Null

Mounted == popupMounted(view, sessionInfo, activeStudentModalVisible, activeStudent)

\* The popup state after a render: kept while the component stays mounted,
\* initial again once it was unmounted.
PopupKept == popup' = IF Mounted' THEN popup ELSE FreshPopup

(***************************************************************************)
(* App: picker and ledger operations.                                       *)
(***************************************************************************)

\* The state of Quiz when it is mounted: the results are not shown, and the
\* effect that logs the run has not run with them shown.
NoCallback == <<>>
FreshQuiz == [showResults |-> FALSE, logActivity |-> NoCallback]

\* An exception leaves the render of App, which no component catches: React
\* takes the whole tree down, and the state App, SessionSetup and the popup
\* held is gone.
unmountRoot ==
    /\ initStep' = "unmounted"
    /\ view' = "landing"
    /\ sessionInfo' = NoSession
    /\ curriculum' = [loaded |-> FALSE, studentProfiles |-> <<>>]
    /\ participationRecords' = <<>>
    /\ isCloudConnected' = FALSE
    /\ dbPermissionError' = FALSE
    /\ activeStudent' = Null
    /\ remainingPool' = <<>>
    /\ activeStudentModalVisible' = FALSE
    /\ popup' = FreshPopup
    /\ setup' = NoSetup
    /\ activityRecords' = <<>>
    /\ isStudentMode' = FALSE
    /\ activeStudentName' = Null
    /\ quiz' = FreshQuiz

\* A resetPicker that leaves the pool empty.
resetPicker_leavesEmpty(session, curr) ==
    IF session = NoSession \/ ~curr.loaded
    THEN UNCHANGED <<remainingPool, activeStudent>>
    ELSE /\ remainingPool' = <<>>
         /\ activeStudent' = Null

\* resetPicker(), run with the session and curriculum of the render it closes
\* over: a new shuffled pool and no active student; nothing without a
\* session or a curriculum.
resetPicker(session, curr) ==
    IF session = NoSession \/ ~curr.loaded
    THEN UNCHANGED <<remainingPool, activeStudent>>
    ELSE /\ remainingPool' \in resetPickerPools(session, curr.studentProfiles)
         /\ activeStudent' = Null

\* A record that keeps the score it is given whatever the judgment, and gives
\* an incorrect answer a point for taking part.
newRecord_scoreKept(session, now, studentName, durationSeconds, isCorrect, score) ==
    [id              |-> now,
     studentName     |-> studentName,
     grade           |-> session.grade,
     date            |-> session.date,
     period          |-> session.period,
     durationSeconds |-> durationSeconds,
     score           |-> IF isCorrect THEN score ELSE score + 1,
     isCorrect       |-> isCorrect]

\* The instants of the clock at which the records of a ledger that carry an
\* id were built.
idsOf(records) ==
    {records[i].id : i \in {k \in 1..Len(records) : "id" \in DOMAIN records[k]}}

\* The instants of the records there are: in memory, in local storage, in
\* the remote collection and on their way to it.
knownInstants ==
    idsOf(participationRecords) \cup idsOf(getParticipationRecordsFromStorage)
    \cup idsOf(cloud.participation) \cup idsOf(cloud.pending)

\* What new Date() may read when a record is built.  An instant is a number;
\* only whether two instants are the same millisecond is followed, no
\* operation reading more of an id, so a later instant is the first number
\* that no record there is carries.  When the last record of the ledger was
\* built in the current millisecond, the clock reads its instant again.
Later == "later"
Same == "same"
clockReads(reading) ==
    LET last   == participationRecords[Len(participationRecords)]
        unused == (1..(Cardinality(knownInstants) + 1)) \ knownInstants
    IN  IF reading = Same
        THEN IF participationRecords # <<>> /\ "id" \in DOMAIN last THEN {last.id} ELSE {}
        ELSE {CHOOSE now \in unused : \A other \in unused : now <= other}

\* The ParticipationRecord logParticipation builds at the instant now: its id
\* is new Date().toISOString(), the instant to the millisecond (day and
\* timestamp, which no operation here reads, are left out; durationSeconds
\* is kept in thousandths of a second).
newRecord(session, now, studentName, durationSeconds, isCorrect, score) ==
    [id              |-> now,
     studentName     |-> studentName,
     grade           |-> session.grade,
     date            |-> session.date,
     period          |-> session.period,
     durationSeconds |-> durationSeconds,
     score           |-> IF isCorrect THEN score ELSE 0,
     isCorrect       |-> isCorrect]

\* The state updater of logParticipation throws: it calls
\* saveParticipationRecordsToStorage, which catches nothing.
logThrows(session) ==
    /\ session # NoSession
    /\ participationQuotaExceeded(Len(participationRecords) + 1)

\* logParticipation whose state updater throws: React keeps the exception
\* for the render, logParticipation goes on to saveParticipationToCloud with
\* mirror, and the render of App then fails.
logParticipationThrows(session, mirror, now, studentName, durationSeconds, isCorrect, score) ==
    LET record == newRecord(session, now, studentName, durationSeconds, isCorrect, score)
    IN  /\ unmountRoot
        /\ UNCHANGED localStorage
        /\ cloud' = IF mirror
                    THEN [cloud EXCEPT !.pending = Append(@, record)]
                    ELSE cloud

\* logParticipation of the render with sessionInfo = session and
\* isCloudConnected && !dbPermissionError = mirror, its state updater not
\* throwing: the record is appended to
\* the ledger and the new ledger is written to local storage.  With mirror
\* saveParticipationToCloud(newRecord) is called and not awaited: it runs up
\* to its await setDoc, which leaves a write in flight.
logParticipation(session, mirror, now, studentName, durationSeconds, isCorrect, score) ==
    IF session = NoSession
    THEN UNCHANGED <<participationRecords, localStorage, cloud>>
    ELSE LET record  == newRecord(session, now, studentName, durationSeconds, isCorrect,
                                  score)
             updated == Append(participationRecords, record)
         IN  /\ participationRecords' = updated
             /\ localStorage' = [localStorage EXCEPT !.participationRecords = Json(updated)]
             /\ cloud' = IF mirror
                         THEN [cloud EXCEPT !.pending = Append(@, record)]
                         ELSE cloud

\* setDoc(doc(db, 'participation', record.id), record) on a collection: the
\* document of that id is replaced, or the record is added as a new one.
setDoc(documents, record) ==
    IF \E i \in 1..Len(documents) :
           "id" \in DOMAIN documents[i] /\ documents[i].id = record.id
    THEN [i \in 1..Len(documents) |->
             IF "id" \in DOMAIN documents[i] /\ documents[i].id = record.id
             THEN record ELSE documents[i]]
    ELSE Append(documents, record)

\* A remote write whose failure takes the record out of the ledger again.
saveParticipationToCloud_rollsBack ==
    /\ \E i \in 1..Len(cloud.pending), stored \in BOOLEAN :
           LET rest == SubSeq(cloud.pending, 1, i - 1)
                       \o SubSeq(cloud.pending, i + 1, Len(cloud.pending))
           IN  /\ cloud' = IF stored
                            THEN [cloud EXCEPT !.participation = setDoc(@, cloud.pending[i]),
                                               !.pending = rest]
                            ELSE [cloud EXCEPT !.pending = rest, !.errorLogged = TRUE]
               /\ participationRecords' =
                      IF stored THEN participationRecords
                      ELSE SelectSeq(participationRecords, LAMBDA r : r # cloud.pending[i])
    /\ UNCHANGED <<view, sessionInfo, curriculum, isCloudConnected,
                   dbPermissionError, activeStudent, remainingPool,
                   activeStudentModalVisible, popup, timeouts, localStorage, initStep,
                   activityRecords, studentLogin, quiz,
                   setup>>

\* saveParticipationToCloud resumes after await setDoc for a write in
\* flight: the document is in the collection, or setDoc was rejected and the
\* catch logs the error.  A write that is never settled stays in flight.
saveParticipationToCloud ==
    /\ \E i \in 1..Len(cloud.pending), stored \in BOOLEAN :
           LET rest == SubSeq(cloud.pending, 1, i - 1)
                       \o SubSeq(cloud.pending, i + 1, Len(cloud.pending))
           IN  cloud' = IF stored
                        THEN [cloud EXCEPT !.participation = setDoc(@, cloud.pending[i]),
                                           !.pending = rest]
                        ELSE [cloud EXCEPT !.pending = rest, !.errorLogged = TRUE]
    /\ UNCHANGED <<view, sessionInfo, curriculum, participationRecords, isCloudConnected,
                   dbPermissionError, activeStudent, remainingPool,
                   activeStudentModalVisible, popup, timeouts, localStorage, initStep,
                   activityRecords, studentLogin, quiz,
                   setup>>

\* A pick that shows the front name and leaves it in the pool.
pickStudent_keepsFront ==
    /\ curriculum.loaded
    /\ trackerVisible(view, sessionInfo)
    /\ IF remainingPool = <<>>
       THEN /\ resetPicker(sessionInfo, curriculum)
            /\ UNCHANGED activeStudentModalVisible
       ELSE /\ remainingPool' = remainingPool
            /\ activeStudent' = Head(remainingPool)
            /\ activeStudentModalVisible' = TRUE
    /\ UNCHANGED <<view, sessionInfo, curriculum, participationRecords, isCloudConnected,
                   dbPermissionError, timeouts, localStorage, cloud, initStep,
                   activityRecords, studentLogin, quiz, setup>>
    /\ PopupKept

\* pickStudent: with an empty pool it refills the pool and returns; otherwise
\* the front name becomes the active student and the popup is asked for.
pickStudent ==
    /\ curriculum.loaded
    /\ trackerVisible(view, sessionInfo)
    /\ IF remainingPool = <<>>
       THEN /\ resetPicker(sessionInfo, curriculum)
            /\ UNCHANGED activeStudentModalVisible
       ELSE /\ remainingPool' = Tail(remainingPool)
            /\ activeStudent' = Head(remainingPool)
            /\ activeStudentModalVisible' = TRUE
    /\ UNCHANGED <<view, sessionInfo, curriculum, participationRecords, isCloudConnected,
                   dbPermissionError, timeouts, localStorage, cloud, initStep,
                   activityRecords, studentLogin, quiz, setup>>
    /\ PopupKept

\* handleResetPool, the confirm dialog accepted.
handleResetPool ==
    /\ curriculum.loaded
    /\ trackerVisible(view, sessionInfo)
    /\ resetPicker(sessionInfo, curriculum)
    /\ UNCHANGED <<view, sessionInfo, curriculum, participationRecords, isCloudConnected,
                   dbPermissionError, activeStudentModalVisible, timeouts, localStorage,
                   cloud, initStep, activityRecords, studentLogin, quiz, setup>>
    /\ PopupKept

\* The records handleResetLeaderboard keeps: those of other sessions.
otherRecords(currentRecords, session) ==
    SelectSeq(currentRecords,
              LAMBDA r : \/ r.date # session.date
                         \/ r.grade # session.grade
                         \/ Number(r.period) # Number(session.period))

\* handleResetLeaderboard, the confirm dialog accepted.
handleResetLeaderboard ==
    /\ curriculum.loaded
    /\ trackerVisible(view, sessionInfo)
    /\ LET kept == otherRecords(getParticipationRecordsFromStorage, sessionInfo)
       IN  /\ localStorage' = [localStorage EXCEPT !.participationRecords = Json(kept)]
           /\ participationRecords' = kept
    /\ resetPicker(sessionInfo, curriculum)
    /\ UNCHANGED <<view, sessionInfo, curriculum, isCloudConnected, dbPermissionError,
                   activeStudentModalVisible, timeouts, cloud, initStep, activityRecords,
                   studentLogin, quiz, setup>>
    /\ PopupKept

\* A handleModalLog that looks at the student and the session of the moment
\* it runs.
handleModalLog_current(t, now) ==
    /\ IF activeStudent # Null
       THEN logParticipation(sessionInfo, t.mirror, now, activeStudent, t.seconds,
                             t.isCorrect, IF t.isCorrect THEN t.points ELSE 0)
       ELSE UNCHANGED <<participationRecords, localStorage, cloud>>
    /\ activeStudentModalVisible' = FALSE
    /\ activeStudent' = Null

\* handleModalLog of the render in which the judgment was made, run by the
\* timeout t at the instant now: it logs for the student and session of that
\* render and closes the popup of the current one.
handleModalLog(t, now) ==
    /\ IF t.student # Null
       THEN logParticipation(t.session, t.mirror, now, t.student, t.seconds, t.isCorrect,
                             IF t.isCorrect THEN t.points ELSE 0)
       ELSE UNCHANGED <<participationRecords, localStorage, cloud>>
    /\ activeStudentModalVisible' = FALSE
    /\ activeStudent' = Null

\* handleModalLog whose logParticipation throws in its state updater.
handleModalLogThrows(t, now) ==
    logParticipationThrows(t.session, t.mirror, now, t.student, t.seconds, t.isCorrect,
                           IF t.isCorrect THEN t.points ELSE 0)

\* A timeout may run before an older one only if it is shorter and was set
\* less than the difference of the delays (500 ms) later: an Incorrect whose
\* own timer ran below 500 ms, behind nothing but Corrects.
mayFire(i) ==
    \/ i = 1
    \/ /\ ~timeouts[i].isCorrect
       /\ timeouts[i].seconds < 500
       /\ \A j \in 1..(i - 1) : timeouts[j].isCorrect

\* The callback of a setTimeout of handleCorrect or handleIncorrect runs,
\* the clock reading one of readings.  What a callback does that finds the
\* tree of App taken down is not followed.
TimeoutFiresAt(readings) ==
    \E i \in 1..Len(timeouts), reading \in readings :
        \E now \in clockReads(reading) :
            /\ initStep # "unmounted"
            /\ mayFire(i)
            /\ timeouts' = SubSeq(timeouts, 1, i - 1)
                              \o SubSeq(timeouts, i + 1, Len(timeouts))
            /\ IF timeouts[i].student # Null /\ logThrows(timeouts[i].session)
               THEN handleModalLogThrows(timeouts[i], now)
               ELSE /\ handleModalLog(timeouts[i], now)
                    /\ UNCHANGED <<view, sessionInfo, curriculum, isCloudConnected,
                                   dbPermissionError, remainingPool, initStep,
                                   activityRecords, studentLogin, quiz, setup>>
                    /\ PopupKept

\* ... after every record there is: no record was built in the millisecond
\* in which the callback runs.
TimeoutFires == TimeoutFiresAt({Later})

(***************************************************************************)
(* MiniStudentPopup: timer and judgment.                                    *)
(***************************************************************************)

appUnchanged ==
    UNCHANGED <<view, sessionInfo, curriculum, participationRecords, isCloudConnected,
                dbPermissionError, activeStudent, remainingPool,
                activeStudentModalVisible, localStorage, cloud, initStep, activityRecords,
                studentLogin, quiz, setup>>

\* The Start Timer button, offered while !started && !finalResult.
StartTimer ==
    /\ Mounted
    /\ ~popup.started
    /\ popup.finalResult = NoResult
    /\ popup' = [popup EXCEPT !.started = TRUE, !.scoreDisplay = newScore(popup.msElapsed)]
    /\ UNCHANGED timeouts
    /\ appUnchanged

\* An interval that is not cleared by the judgment.
Tick_afterJudgment(maxTicks) ==
    /\ Mounted
    /\ popup.started \/ popup.finalResult # NoResult
    /\ popup.msElapsed < 100 * maxTicks
    /\ popup' = [popup EXCEPT !.msElapsed = @ + 100,
                             !.scoreDisplay = newScore(popup.msElapsed + 100)]
    /\ UNCHANGED timeouts
    /\ appUnchanged

\* A tick of the 100 ms interval, which exists while started && !finalResult,
\* followed by the score effect; at most maxTicks ticks are followed.
Tick(maxTicks) ==
    /\ Mounted
    /\ popup.started
    /\ popup.finalResult = NoResult
    /\ popup.msElapsed < 100 * maxTicks
    /\ popup' = [popup EXCEPT !.msElapsed = @ + 100,
                             !.scoreDisplay = newScore(popup.msElapsed + 100)]
    /\ UNCHANGED timeouts
    /\ appUnchanged

\* The callback a judgment hands to setTimeout: onLog of the current render
\* with its arguments.
timeoutOf(isCorrect, points) ==
    [isCorrect |-> isCorrect,
     seconds   |-> popup.msElapsed,
     points    |-> points,
     student   |-> activeStudent,
     session   |-> sessionInfo,
     mirror    |-> cloudEnabled]

\* The judgment buttons are enabled while started and no result is shown.
canJudge ==
    /\ Mounted
    /\ popup.started
    /\ popup.finalResult = NoResult
    /\ Len(timeouts) < MaxTimeouts

\* Another record may be logged: the ledger has room for it, and with a
\* remote store in use so has the collection.
roomFor(maxRecords) ==
    /\ Len(participationRecords) + Len(timeouts) < maxRecords
    /\ cloudEnabled =>
           Len(cloud.participation) + Len(cloud.pending) + Len(timeouts) < MaxCloudDocuments

\* handleCorrect
handleCorrect(maxRecords) ==
    /\ canJudge
    /\ roomFor(maxRecords)
    /\ LET bonus == bonusOf(popup.scoreDisplay)
           total == popup.scoreDisplay + bonus
       IN  /\ popup' = [popup EXCEPT
                          !.started = FALSE,
                          !.finalResult = [kind |-> "correct", base |-> popup.scoreDisplay,
                                           bonus |-> bonus, total |-> total]]
           /\ timeouts' = Append(timeouts, timeoutOf(TRUE, total))
    /\ appUnchanged

\* handleIncorrect
handleIncorrect(maxRecords) ==
    /\ canJudge
    /\ roomFor(maxRecords)
    /\ popup' = [popup EXCEPT !.started = FALSE, !.finalResult = IncorrectResult]
    /\ timeouts' = Append(timeouts, timeoutOf(FALSE, 0))
    /\ appUnchanged

\* onClose of the popup: the close button, always offered.
onClose ==
    /\ Mounted
    /\ activeStudentModalVisible' = FALSE
    /\ activeStudent' = Null
    /\ UNCHANGED <<view, sessionInfo, curriculum, participationRecords, isCloudConnected,
                   dbPermissionError, remainingPool, timeouts, localStorage, cloud,
                   initStep, activityRecords, studentLogin, quiz, setup>>
    /\ PopupKept

\* An Absent that puts the name back at the end of the pool.
handleAbsent_returnsName ==
    /\ ~popup.started
    /\ popup.finalResult = NoResult
    /\ Mounted
    /\ activeStudentModalVisible' = FALSE
    /\ activeStudent' = Null
    /\ remainingPool' = Append(remainingPool, activeStudent)
    /\ UNCHANGED <<view, sessionInfo, curriculum, participationRecords, isCloudConnected,
                   dbPermissionError, timeouts, localStorage, cloud, initStep,
                   activityRecords, studentLogin, quiz, setup>>
    /\ PopupKept

\* handleAbsent: the Absent button, offered while !started && !finalResult.
handleAbsent ==
    /\ ~popup.started
    /\ popup.finalResult = NoResult
    /\ onClose

(***************************************************************************)
(* Quiz, DiaryLog, AdminConsole.                                            *)
(***************************************************************************)

\* The views of App that are followed.  'grammar' stands for every activity
\* that shows a Quiz; 'adminLogin', where only the password form is added to
\* what 'adminConsole' shows of the picker, is passed through.
Views == {"landing", "adminConsole", "sessionSetup", "menu", "grammar", "diaryLog"}

\* Math.round((Date.now() - questionStartTime) / 1000), in thousandths.
QuizDurations == {4000}

\* commonActivityProps.activeStudent
activeStudentProp == IF isStudentMode THEN activeStudentName ELSE activeStudent

\* Quiz.handleNext with an option selected, while the questions are shown.
\* The questions are not followed: whether this one is the last
\* (currentQuestionIndex = questions.length - 1) is an input.  With a student
\* logged in, the logParticipation handed to Quiz does nothing.
handleNext(maxRecords) ==
    /\ curriculum.loaded
    /\ view = "grammar"
    /\ ~quiz.showResults
    /\ UNCHANGED timeouts
    /\ \E last \in BOOLEAN :
           IF activeStudentProp # Null /\ ~isStudentMode
           THEN /\ roomFor(maxRecords)
                /\ \E isCorrect \in BOOLEAN, durationSeconds \in QuizDurations,
                      now \in clockReads(Later) :
                       IF logThrows(sessionInfo)
                       THEN logParticipationThrows(sessionInfo, cloudEnabled, now,
                                                   activeStudent, durationSeconds,
                                                   isCorrect, 0)
                       ELSE /\ logParticipation(sessionInfo, cloudEnabled, now,
                                                activeStudent, durationSeconds,
                                                isCorrect, 0)
                            /\ quiz' = [quiz EXCEPT !.showResults = last]
                            /\ UNCHANGED <<view, sessionInfo, curriculum, isCloudConnected,
                                           dbPermissionError, activeStudent, remainingPool,
                                           activeStudentModalVisible, popup, initStep,
                                           activityRecords, studentLogin, setup>>
           ELSE /\ quiz' = [quiz EXCEPT !.showResults = last]
                /\ UNCHANGED <<view, sessionInfo, curriculum, participationRecords,
                               isCloudConnected, dbPermissionError, activeStudent,
                               remainingPool, activeStudentModalVisible, popup,
                               localStorage, cloud, initStep, activityRecords,
                               studentLogin, setup>>

\* The ActivityRecord logActivity makes of the activityData of Quiz, as far
\* as followed.  Its id ends in a Math.random(): the count of the records
\* stands for it.
newActivityRecord(records, session, studentName) ==
    [id             |-> Len(records) + 1,
     studentName    |-> studentName,
     studentSection |-> IF session # NoSession THEN session.grade ELSE "Unknown"]

\* The values logActivity is memoized on: a render in which one of them
\* differs hands another function to Quiz.
logActivityDeps == <<activityRecords, sessionInfo, isCloudConnected, dbPermissionError>>

\* The effect of Quiz that logs the run, with the results shown and a student
\* active: it runs after a render in which activeStudent or logActivity is
\* not what the effect last ran with, and calls logActivity, which appends
\* a record to the activity records of that render and stores them.
\* saveActivityRecordsToStorage catches nothing: with the quota reached the
\* exception leaves the effect.  What saveActivityRecordToCloud writes is
\* not followed.
logActivityEffect(maxActivityRecords) ==
    /\ curriculum.loaded
    /\ view = "grammar"
    /\ quiz.showResults
    /\ activeStudentProp # Null
    /\ quiz.logActivity # <<activeStudentProp, logActivityDeps>>
    /\ Len(activityRecords) < maxActivityRecords
    /\ UNCHANGED <<timeouts, cloud>>
    /\ IF localStorage.full
       THEN /\ unmountRoot
            /\ UNCHANGED localStorage
       ELSE LET updated == Append(activityRecords,
                                  newActivityRecord(activityRecords, sessionInfo,
                                                    activeStudentProp))
            IN  /\ activityRecords' = updated
                /\ localStorage' = [localStorage EXCEPT !.activityRecords = Json(updated)]
                /\ quiz' = [quiz EXCEPT
                              !.logActivity = <<activeStudentProp, logActivityDeps>>]
                /\ UNCHANGED <<view, sessionInfo, curriculum, participationRecords,
                               isCloudConnected, dbPermissionError, activeStudent,
                               remainingPool, activeStudentModalVisible, popup, initStep,
                               studentLogin, setup>>

\* `${record.date}-${record.grade}-${record.period}`
recordSessionId(r) == <<r.date, r.grade, Number(r.period)>>

\* DiaryLog.handleDeleteSession for the session of a record of the ledger,
\* with onUpdateRecords of App.
handleDeleteSession ==
    /\ curriculum.loaded
    /\ view = "diaryLog"
    /\ \E k \in 1..Len(participationRecords) :
           LET sessionId      == recordSessionId(participationRecords[k])
               updatedRecords == SelectSeq(participationRecords,
                                           LAMBDA r : recordSessionId(r) # sessionId)
           IN  /\ participationRecords' = updatedRecords
               /\ localStorage' = [localStorage EXCEPT
                                     !.participationRecords = Json(updatedRecords)]
    /\ UNCHANGED <<view, sessionInfo, curriculum, isCloudConnected, dbPermissionError,
                   activeStudent, remainingPool, activeStudentModalVisible, popup,
                   timeouts, cloud, initStep, activityRecords, studentLogin, quiz, setup>>

\* record.id as JavaScript reads it: undefined for a record without one.
idOrUndefined(r) == IF "id" \in DOMAIN r THEN <<"id", r.id>> ELSE <<"undefined">>

\* DiaryLog.handleDeleteRecord for the id of a record of the ledger, with
\* onUpdateRecords of App.
handleDeleteRecord ==
    /\ curriculum.loaded
    /\ view = "diaryLog"
    /\ \E k \in 1..Len(participationRecords) :
           LET recordId       == idOrUndefined(participationRecords[k])
               updatedRecords == SelectSeq(participationRecords,
                                           LAMBDA r : idOrUndefined(r) # recordId)
           IN  /\ participationRecords' = updatedRecords
               /\ localStorage' = [localStorage EXCEPT
                                     !.participationRecords = Json(updatedRecords)]
    /\ UNCHANGED <<view, sessionInfo, curriculum, isCloudConnected, dbPermissionError,
                   activeStudent, remainingPool, activeStudentModalVisible, popup,
                   timeouts, cloud, initStep, activityRecords, studentLogin, quiz, setup>>

\* AdminConsole.toggleSpecialNeeds(studentName): the new studentProfiles.
toggledProfiles(studentProfiles, studentName) ==
    LET found == {i \in 1..Len(studentProfiles) : studentProfiles[i].name = studentName}
    IN  IF found # {}
        THEN LET existingIndex == CHOOSE i \in found : \A j \in found : i <= j
                 profile       == studentProfiles[existingIndex]
                 current       == "isSpecialNeeds" \in DOMAIN profile /\ profile.isSpecialNeeds
             IN  [studentProfiles EXCEPT
                    ![existingIndex] =
                        [member \in DOMAIN profile \cup {"isSpecialNeeds"} |->
                           IF member = "isSpecialNeeds" THEN ~current ELSE profile[member]]]
        ELSE Append(studentProfiles, [name |-> studentName, isSpecialNeeds |-> TRUE])

\* The students the admin console lists for the grades taught.
StudentsOf(grades) ==
    UNION {{studentsByGrade[g][i] : i \in 1..Len(studentsByGrade[g])} : g \in grades}

\* handleSetCurriculum(newCurriculum), then the effect that runs resetPicker
\* because curriculum changed.  saveCurriculumToCloud is not awaited; the
\* curriculum document is read by init alone, which has run by then, and
\* what becomes of that write is not followed.
handleSetCurriculum(newCurriculum) ==
    /\ curriculum' = newCurriculum
    /\ saveCurriculum(newCurriculum)
    /\ UNCHANGED cloud
    /\ resetPicker(sessionInfo, newCurriculum)

\* The special-needs checkbox of the admin console.
toggleSpecialNeeds(grades, maxProfiles) ==
    /\ curriculum.loaded
    /\ view = "adminConsole"
    /\ \E studentName \in StudentsOf(grades) :
           /\ Len(toggledProfiles(curriculum.studentProfiles, studentName)) <= maxProfiles
           /\ handleSetCurriculum([curriculum EXCEPT
                  !.studentProfiles = toggledProfiles(@, studentName)])
    /\ UNCHANGED <<view, sessionInfo, participationRecords, isCloudConnected,
                   dbPermissionError, activeStudentModalVisible, timeouts, initStep,
                   activityRecords, studentLogin, quiz, setup>>
    /\ PopupKept

(***************************************************************************)
(* App: start-up and navigation.                                            *)
(***************************************************************************)

pickerUnchanged ==
    UNCHANGED <<activeStudent, remainingPool, activeStudentModalVisible, popup, timeouts>>

\* The init effect up to its first await: initFirebase(), and without a
\* connection the load from local storage.  An exception of getCurriculum()
\* rejects the promise of init, which nothing awaits: init ends there.
init ==
    /\ initStep = "mount"
    /\ isCloudConnected' = localStorage.firebaseConfig
    /\ IF localStorage.firebaseConfig
       THEN /\ initStep' = "checkDatabaseAccess"
            /\ UNCHANGED <<curriculum, participationRecords, localStorage, activityRecords>>
       ELSE IF getCurriculumThrows
       THEN /\ initStep' = "done"
            /\ UNCHANGED <<curriculum, participationRecords, localStorage, activityRecords>>
       ELSE /\ initStep' = "done"
            /\ curriculum' = getCurriculum
            /\ localStorage' = storageAfterGetCurriculum
            /\ participationRecords' = getParticipationRecordsFromStorage
            /\ activityRecords' = getActivityRecordsFromStorage
    /\ UNCHANGED <<view, sessionInfo, dbPermissionError, cloud, setup, studentLogin, quiz>>
    /\ pickerUnchanged

\* init resumes after await checkDatabaseAccess().
initAccessChecked ==
    /\ initStep = "checkDatabaseAccess"
    /\ IF cloud.access = "permission-denied"
       THEN dbPermissionError' = TRUE /\ initStep' = "done"
       ELSE dbPermissionError' = FALSE /\ initStep' = "getCurriculumFromCloud"
    /\ UNCHANGED <<view, sessionInfo, curriculum, participationRecords, isCloudConnected,
                   localStorage, cloud, setup, activityRecords, studentLogin, quiz>>
    /\ pickerUnchanged

\* init resumes after await getCurriculumFromCloud(): the cloud document,
\* or getCurriculum() when there is none or the read failed; then the effect
\* that runs resetPicker because curriculum changed.
initCurriculumFetched ==
    /\ initStep = "getCurriculumFromCloud"
    /\ LET fromCloud == cloud.access = "ok" /\ cloud.curriculum.state = "json"
           loaded    == IF fromCloud
                        THEN [defaultCurriculum EXCEPT
                                !.studentProfiles = cloud.curriculum.value]
                        ELSE getCurriculum
       IN  IF ~fromCloud /\ getCurriculumThrows
           THEN /\ initStep' = "done"
                /\ UNCHANGED <<curriculum, localStorage, remainingPool, activeStudent>>
           ELSE /\ curriculum' = loaded
                /\ localStorage' = IF fromCloud THEN localStorage
                                   ELSE storageAfterGetCurriculum
                /\ resetPicker(sessionInfo, loaded)
                /\ initStep' = "getAllParticipationFromCloud"
    /\ UNCHANGED <<view, sessionInfo, participationRecords, isCloudConnected,
                   dbPermissionError, activeStudentModalVisible, timeouts, cloud, setup,
                   activityRecords, studentLogin, quiz>>
    /\ PopupKept

\* init resumes after await getAllParticipationFromCloud(): the collection,
\* or [] when the read failed; and then after await
\* getAllActivityRecordsFromCloud(), which in every installation followed
\* finds no activity record in the remote store.
initParticipationFetched ==
    /\ initStep = "getAllParticipationFromCloud"
    /\ participationRecords' = IF cloud.access = "ok" THEN cloud.participation ELSE <<>>
    /\ activityRecords' = <<>>
    /\ initStep' = "done"
    /\ UNCHANGED <<view, sessionInfo, curriculum, isCloudConnected, dbPermissionError,
                   localStorage, cloud, setup, studentLogin, quiz>>
    /\ pickerUnchanged

\* A button that only changes the view, to one that does not show
\* SessionSetup; every view is rendered only once the curriculum is loaded.
\* A Quiz the view left is unmounted, one the view comes to is mounted.
setView(from, to) ==
    /\ curriculum.loaded
    /\ view = from
    /\ view' = to
    /\ setup' = NoSetup
    /\ UNCHANGED <<sessionInfo, curriculum, participationRecords, isCloudConnected,
                   dbPermissionError, activeStudent, remainingPool,
                   activeStudentModalVisible, timeouts, localStorage, cloud, initStep,
                   activityRecords, studentLogin>>
    /\ quiz' = FreshQuiz
    /\ PopupKept

onAdminLogin == setView("landing", "adminConsole")

\* Exit to Classroom: the view becomes 'sessionSetup' and SessionSetup is
\* rendered for the first time, its date formatDate(today) for the day the
\* browser runs on, and no error.
exitToClassroom(todays) ==
    /\ curriculum.loaded
    /\ view = "adminConsole"
    /\ view' = "sessionSetup"
    /\ \E today \in todays : setup' = [date |-> today, error |-> FALSE]
    /\ UNCHANGED <<sessionInfo, curriculum, participationRecords, isCloudConnected,
                   dbPermissionError, activeStudent, remainingPool,
                   activeStudentModalVisible, timeouts, localStorage, cloud, initStep,
                   activityRecords, studentLogin>>
    /\ quiz' = FreshQuiz
    /\ PopupKept

\* SessionSetup.handleDateChange(e) with e.target.value = newDateStr, not
\* empty: a Friday or Saturday sets the error and leaves the date, any other
\* day clears the error and becomes the date.
handleDateChange(dates) ==
    /\ curriculum.loaded
    /\ view = "sessionSetup"
    /\ \E newDateStr \in dates :
           LET dayOfWeek == getUTCDay(newDateStr)
           IN  setup' = IF dayOfWeek = 5 \/ dayOfWeek = 6
                        THEN [setup EXCEPT !.error = TRUE]
                        ELSE [date |-> newDateStr, error |-> FALSE]
    /\ UNCHANGED <<view, sessionInfo, curriculum, participationRecords, isCloudConnected,
                   dbPermissionError, activeStudent, remainingPool,
                   activeStudentModalVisible, popup, timeouts, localStorage, cloud,
                   initStep, activityRecords, studentLogin, quiz>>

onAdminClick == setView("sessionSetup", "adminConsole")
openActivity == setView("menu", "grammar")
openDiaryLog == setView("menu", "diaryLog")

\* handleBack: a student logged in goes back to the dashboard.
handleBack ==
    IF isStudentMode THEN setView("grammar", "studentDashboard")
    ELSE setView("grammar", "menu")


\* SessionSetup.handleSubmit, which returns when an error is shown:
\* onSessionStart({ date, day, period, grade }) for the date of the form and
\* the period and grade chosen, then the effect that runs resetPicker because
\* sessionInfo changed.
handleSubmit(grades) ==
    /\ curriculum.loaded
    /\ view = "sessionSetup"
    /\ ~setup.error
    /\ \E grade \in grades, period \in Periods :
           LET info == [date |-> setup.date, grade |-> grade, period |-> NumberPeriod(period)]
           IN  /\ sessionInfo' = info
               /\ resetPicker(info, curriculum)
    /\ view' = "menu"
    /\ setup' = NoSetup
    /\ UNCHANGED <<curriculum, participationRecords, isCloudConnected, dbPermissionError,
                   activeStudentModalVisible, timeouts, localStorage, cloud, initStep,
                   activityRecords, studentLogin>>
    /\ quiz' = FreshQuiz
    /\ PopupKept

\* The two buttons of the navigation bar (title and Log Out).
logOut ==
    /\ view # "landing"
    /\ view' = "landing"
    /\ activeStudent' = Null
    /\ setup' = NoSetup
    /\ UNCHANGED <<sessionInfo, curriculum, participationRecords, isCloudConnected,
                   dbPermissionError, remainingPool, activeStudentModalVisible, timeouts,
                   localStorage, cloud, initStep, activityRecords, activeStudentName>>
    /\ isStudentMode' = FALSE
    /\ quiz' = FreshQuiz
    /\ PopupKept

(***************************************************************************)
(* The login of a student, the dashboard, and what the admin console sets   *)
(* of it.                                                                   *)
(***************************************************************************)

\* The modules StudentDashboard lists, in its order.
modules ==
    <<"writing", "grammar", "reading", "coverTheBasics", "learnToWrite", "guidedWriting",
      "vocabulary", "textLeveler", "spellingStation", "diaryLog">>

ModuleId == {modules[i] : i \in 1..Len(modules)}

\* StudentLogin.onLogin(name) for a name of the rosters.
handleStudentLoginSuccess(grades) ==
    /\ curriculum.loaded
    /\ view = "landing"
    /\ \E name \in StudentsOf(grades) : activeStudentName' = name
    /\ isStudentMode' = TRUE
    /\ view' = "studentDashboard"
    /\ setup' = NoSetup
    /\ quiz' = FreshQuiz
    /\ UNCHANGED <<sessionInfo, curriculum, participationRecords, isCloudConnected,
                   dbPermissionError, activeStudent, remainingPool,
                   activeStudentModalVisible, timeouts, localStorage, cloud, initStep,
                   activityRecords>>
    /\ PopupKept

\* curriculum.studentProfiles.find(p => p.name === studentName)?.baselineTaken
baselineTaken(curr, studentName) ==
    \E i \in 1..Len(curr.studentProfiles) :
        /\ curr.studentProfiles[i].name = studentName
        /\ \A j \in 1..(i - 1) : curr.studentProfiles[j].name # studentName
        /\ "baselineTaken" \in DOMAIN curr.studentProfiles[i]
        /\ curr.studentProfiles[i].baselineTaken

\* StudentDashboard.myAssignments
myAssignments(curr, studentName) ==
    SelectSeq(curr.assignments,
              LAMBDA a : a.studentName = studentName /\ a.activityType = "module")

\* StudentDashboard.isModuleUnlocked(moduleId): featureToggles is indexed by
\* the id of the module, and a key it does not have reads undefined.
isModuleUnlocked(curr, studentName, moduleId) ==
    LET toggle == IF moduleId \in DOMAIN curr.featureToggles
                  THEN curr.featureToggles[moduleId]
                  ELSE FALSE
        mine   == myAssignments(curr, studentName)
    IN  IF ~toggle THEN FALSE
        ELSE IF mine = <<>> THEN TRUE
        ELSE \E i \in 1..Len(mine) : mine[i].moduleId = moduleId

\* The buttons StudentDashboard shows under Learning Modules; with the
\* baseline not taken it shows the check-in alone.
dashboardModules(curr, studentName) ==
    IF ~baselineTaken(curr, studentName) THEN <<>>
    ELSE SelectSeq(modules, LAMBDA moduleId : isModuleUnlocked(curr, studentName, moduleId))

\* A button of the dashboard: setView(m.id).
openModule ==
    /\ curriculum.loaded
    /\ view = "studentDashboard"
    /\ activeStudentName # Null
    /\ \E i \in 1..Len(dashboardModules(curriculum, activeStudentName)) :
           view' = dashboardModules(curriculum, activeStudentName)[i]
    /\ setup' = NoSetup
    /\ quiz' = FreshQuiz
    /\ UNCHANGED <<sessionInfo, curriculum, participationRecords, isCloudConnected,
                   dbPermissionError, activeStudent, remainingPool,
                   activeStudentModalVisible, timeouts, localStorage, cloud, initStep,
                   activityRecords, studentLogin>>
    /\ PopupKept

\* A switch of the admin console: toggleFeature(feature, enabled) with
\* enabled the opposite of what the switch shows.
toggleFeature ==
    /\ curriculum.loaded
    /\ view = "adminConsole"
    /\ \E feature \in FeatureToggles :
           handleSetCurriculum([curriculum EXCEPT !.featureToggles[feature] = ~@])
    /\ UNCHANGED <<view, sessionInfo, participationRecords, isCloudConnected,
                   dbPermissionError, activeStudentModalVisible, timeouts, initStep, setup,
                   activityRecords, studentLogin, quiz>>
    /\ PopupKept

\* ModuleAssigner.handleAssign with a module and one student selected; the
\* id and the date of the assignment are not followed.
handleAssign(grades, maxAssignments) ==
    /\ curriculum.loaded
    /\ view = "adminConsole"
    /\ Len(curriculum.assignments) < maxAssignments
    /\ \E selectedModule \in ModuleId, s \in StudentsOf(grades) :
           handleSetCurriculum([curriculum EXCEPT
               !.assignments = Append(@, [moduleId |-> selectedModule,
                                          activityType |-> "module",
                                          studentName |-> s])])
    /\ UNCHANGED <<view, sessionInfo, participationRecords, isCloudConnected,
                   dbPermissionError, activeStudentModalVisible, timeouts, initStep, setup,
                   activityRecords, studentLogin, quiz>>
    /\ PopupKept

\* ModuleAssigner.handleClearAssignments, confirmed.
handleClearAssignments ==
    /\ curriculum.loaded
    /\ view = "adminConsole"
    /\ handleSetCurriculum([curriculum EXCEPT
           !.assignments = SelectSeq(@, LAMBDA a : a.activityType # "module")])
    /\ UNCHANGED <<view, sessionInfo, participationRecords, isCloudConnected,
                   dbPermissionError, activeStudentModalVisible, timeouts, initStep, setup,
                   activityRecords, studentLogin, quiz>>
    /\ PopupKept

(***************************************************************************)
(* The application.                                                         *)
(***************************************************************************)

\* A record found in a store when the application starts: of another period
\* than any session of this run, in the older shape (period read back as
\* text, no score).
StoredRecord ==
    [studentName |-> "Amy", grade |-> "O", date |-> "2024-01-01",
     period |-> StringPeriod(2), isCorrect |-> TRUE]

\* A remote store with no curriculum document, a participation collection,
\* no write in flight and no error logged.
RemoteStore(access, participation) ==
    [access |-> access, curriculum |-> Absent, participation |-> participation,
     pending |-> <<>>, errorLogged |-> FALSE]

\* What the browser and the remote store hold when the application starts
\* with no remote store configured: a ledger in local storage.
LocalInstallations ==
    { [localStorage |-> [participationRecords |-> Json(<<StoredRecord>>),
                         curriculum |-> Absent, firebaseConfig |-> FALSE, full |-> FALSE,
                         activityRecords |-> Absent],
       cloud |-> RemoteStore("ok", <<>>)] }

\* ... and with a remote store configured, local storage empty: a remote
\* store that answers and holds the ledger, and one that denies access.
CloudInstallations ==
    { [localStorage |-> [participationRecords |-> Absent,
                         curriculum |-> Absent, firebaseConfig |-> TRUE, full |-> FALSE,
                         activityRecords |-> Absent],
       cloud |-> RemoteStore(access, <<StoredRecord>>)] :
      access \in {"ok", "permission-denied"} }

\* The state of App after construction, before its effects ran.
Constructed ==
    /\ view = "landing"
    /\ sessionInfo = NoSession
    /\ curriculum = [loaded |-> FALSE, studentProfiles |-> <<>>]
    /\ participationRecords = <<>>
    /\ isCloudConnected = FALSE
    /\ dbPermissionError = FALSE
    /\ activeStudent = Null
    /\ remainingPool = <<>>
    /\ activeStudentModalVisible = FALSE
    /\ popup = FreshPopup
    /\ timeouts = <<>>
    /\ initStep = "mount"
    /\ setup = NoSetup
    /\ activityRecords = <<>>
    /\ isStudentMode = FALSE
    /\ activeStudentName = Null
    /\ quiz = FreshQuiz

Installed(installations) ==
    /\ Constructed
    /\ \E installation \in installations :
           /\ localStorage = installation.localStorage
           /\ cloud = installation.cloud

\* What the teacher, the timers and the pending callbacks can do next.
Teacher(grades, maxRecords, maxTicks, maxProfiles) ==
    \/ onAdminLogin
    \/ exitToClassroom(SessionDates)
    \/ onAdminClick
    \/ openActivity
    \/ openDiaryLog
    \/ handleBack
    \/ handleSubmit(grades)
    \/ logOut
    \/ pickStudent
    \/ handleResetPool
    \/ handleResetLeaderboard
    \/ StartTimer
    \/ Tick(maxTicks)
    \/ handleCorrect(maxRecords)
    \/ handleIncorrect(maxRecords)
    \/ handleAbsent
    \/ onClose
    \/ TimeoutFires
    \/ handleNext(maxRecords)
    \/ handleDeleteSession
    \/ toggleSpecialNeeds(grades, maxProfiles)

(***************************************************************************)
(* The application without a remote store.                                  *)
(***************************************************************************)

Init == Installed(LocalInstallations)

Next ==
    \/ init
    \/ Teacher(TaughtGrades, MaxRecords, MaxTicks, MaxProfiles)

Spec == Init /\ [][Next]_vars

(***************************************************************************)
(* The application with a remote store.                                     *)
(***************************************************************************)

InitCloud == Installed(CloudInstallations)

NextCloud ==
    \/ init
    \/ initAccessChecked
    \/ initCurriculumFetched
    \/ initParticipationFetched
    \/ saveParticipationToCloud
    \/ Teacher(TaughtGrades, MaxCloudRecords, MaxTicks, MaxProfiles)

SpecCloud == InitCloud /\ [][NextCloud]_vars

(***************************************************************************)
(* One draw, from the pick to the record: the application without a remote  *)
(* store after init, onAdminLogin, exitToClassroom, handleSubmit,           *)
(* openActivity and pickStudent, the timer followed over its whole range.   *)
(***************************************************************************)

InitTimer ==
    /\ view = "grammar"
    /\ sessionInfo \in Sessions(TaughtGrades)
    /\ curriculum = defaultCurriculum
    /\ participationRecords = <<StoredRecord>>
    /\ isCloudConnected = FALSE
    /\ dbPermissionError = FALSE
    /\ \E pool \in resetPickerPools(sessionInfo, curriculum.studentProfiles) :
           /\ activeStudent = Head(pool)
           /\ remainingPool = Tail(pool)
    /\ activeStudentModalVisible = TRUE
    /\ popup = FreshPopup
    /\ timeouts = <<>>
    /\ localStorage = [participationRecords |-> Json(<<StoredRecord>>),
                       curriculum |-> Json(<<>>), firebaseConfig |-> FALSE,
                       full |-> FALSE, activityRecords |-> Absent]
    /\ cloud = RemoteStore("ok", <<>>)
    /\ initStep = "done"
    /\ setup = NoSetup
    /\ activityRecords = <<>>
    /\ isStudentMode = FALSE
    /\ activeStudentName = Null
    /\ quiz = FreshQuiz

NextTimer ==
    \/ StartTimer
    \/ Tick(MaxTimerTicks)
    \/ handleCorrect(MaxTimerRecords)
    \/ handleIncorrect(MaxTimerRecords)
    \/ TimeoutFires
    \/ handleNext(MaxTimerRecords)

SpecTimer == InitTimer /\ [][NextTimer]_vars

(***************************************************************************)
(* The pool alone: the application without a remote store, both grades      *)
(* taught, no student drawn.                                                *)
(***************************************************************************)

NextPool ==
    \/ init
    \/ onAdminLogin
    \/ exitToClassroom(SessionDates)
    \/ onAdminClick
    \/ toggleSpecialNeeds(Grades, MaxPoolProfiles)
    \/ handleSubmit(Grades)
    \/ handleResetPool
    \/ logOut

SpecPool == Init /\ [][NextPool]_vars

(***************************************************************************)
(* The leaderboard alone: the application without a remote store started on *)
(* a ledger of any records in local storage, of the shape the application   *)
(* writes and of older ones, up to the start of a session.                  *)
(***************************************************************************)

\* What a stored record may say of the answer: correct with a score, correct
\* without one (an older shape), incorrect with a score, nothing (isCorrect
\* undefined).
StoredOutcomes ==
    {[isCorrect |-> TRUE, score |-> 5], [isCorrect |-> TRUE],
     [isCorrect |-> FALSE, score |-> 5], [score |-> 5]}

\* Stored records of the session of 2024-01-01, 'Grade 3 O', period 1 (the
\* period a number, or a string in an older shape), and records of another
\* period, another grade and another day.
StoredRecords ==
    UNION {
        {[studentName |-> student, grade |-> "O", date |-> "2024-01-01",
          period |-> NumberPeriod(1)] @@ outcome : outcome \in StoredOutcomes}
        \cup
        {[studentName |-> student, grade |-> "O", date |-> "2024-01-01",
          period |-> StringPeriod(1), isCorrect |-> TRUE],
         [studentName |-> student, grade |-> "O", date |-> "2024-01-01",
          period |-> StringPeriod(2), isCorrect |-> TRUE, score |-> 5],
         [studentName |-> student, grade |-> "P", date |-> "2024-01-01",
          period |-> NumberPeriod(1), isCorrect |-> TRUE, score |-> 5],
         [studentName |-> student, grade |-> "O", date |-> "2024-01-02",
          period |-> NumberPeriod(1), isCorrect |-> TRUE, score |-> 5]}
        : student \in {"Amy", "Bo"}}

StoredLedgers == UNION {[1..n -> StoredRecords] : n \in 0..MaxLedger}

\* What the participationRecords key may hold when the application starts.
StoredItems == {Absent, Empty, Malformed} \cup {Json(ledger) : ledger \in StoredLedgers}

InitLeaderboard ==
    /\ Constructed
    /\ \E item \in StoredItems :
           localStorage = [participationRecords |-> item,
                           curriculum |-> Absent, firebaseConfig |-> FALSE, full |-> FALSE,
                           activityRecords |-> Absent]
    /\ cloud = RemoteStore("ok", <<>>)

NextLeaderboard ==
    \/ init
    \/ onAdminLogin
    \/ exitToClassroom(SessionDates)
    \/ handleSubmit(Grades)

SpecLeaderboard == InitLeaderboard /\ [][NextLeaderboard]_vars

(***************************************************************************)
(* Rounds of the class: the application without a remote store, Bo flagged  *)
(* in the saved curriculum and no ledger in local storage; the teacher      *)
(* starts a session and then, over and over, picks a name when nobody is    *)
(* active and nothing is pending, starts the timer, lets it run             *)
(* MaxRoundTicks ticks, presses Correct and waits for the record.           *)
(***************************************************************************)

RoundsInstallations ==
    { [localStorage |-> [participationRecords |-> Absent,
                         curriculum |-> Json(<<[name |-> "Bo", isSpecialNeeds |-> TRUE]>>),
                         firebaseConfig |-> FALSE, full |-> FALSE, activityRecords |-> Absent],
       cloud |-> RemoteStore("ok", <<>>)] }

InitRounds == Installed(RoundsInstallations)

NextRounds ==
    \/ init
    \/ onAdminLogin
    \/ exitToClassroom(SessionDates)
    \/ handleSubmit(TaughtGrades)
    \/ /\ activeStudent = Null
       /\ timeouts = <<>>
       /\ Len(participationRecords) < MaxRounds
       /\ pickStudent
    \/ StartTimer
    \/ Tick(MaxRoundTicks)
    \/ /\ popup.msElapsed = 100 * MaxRoundTicks
       /\ handleCorrect(MaxRounds)
    \/ TimeoutFires

SpecRounds == InitRounds /\ [][NextRounds]_vars

(***************************************************************************)
(* The teacher keeps picking: the application without a remote store, both  *)
(* grades taught; once a session is started the teacher draws names,        *)
(* dismisses them or judges them incorrect, and never stops pressing Pick   *)
(* Name for good.                                                           *)
(***************************************************************************)

NextPicker ==
    \/ init
    \/ onAdminLogin
    \/ exitToClassroom(SessionDates)
    \/ handleSubmit(Grades)
    \/ pickStudent
    \/ StartTimer
    \/ handleIncorrect(MaxPickerRecords)
    \/ TimeoutFires
    \/ handleAbsent
    \/ onClose

SpecPicker == Init /\ [][NextPicker]_vars /\ WF_vars(pickStudent)

(***************************************************************************)
(* The session form: the application without a remote store, run on any day *)
(* of a week, up to the start of a session and back to the landing page.    *)
(***************************************************************************)

NextSetup ==
    \/ init
    \/ onAdminLogin
    \/ exitToClassroom(WeekDates)
    \/ handleDateChange(WeekDates)
    \/ onAdminClick
    \/ handleSubmit(Grades)
    \/ logOut

SpecSetup == Init /\ [][NextSetup]_vars

(***************************************************************************)
(* The display delay: the application without a remote store, both grades   *)
(* taught; whatever the teacher does between a judgment and the callback of *)
(* its setTimeout, which the browser runs once the delay is over.           *)
(***************************************************************************)

NextDelay ==
    \/ init
    \/ onAdminLogin
    \/ exitToClassroom(SessionDates)
    \/ handleSubmit(Grades)
    \/ openActivity
    \/ handleBack
    \/ logOut
    \/ pickStudent
    \/ handleResetPool
    \/ handleResetLeaderboard
    \/ StartTimer
    \/ handleCorrect(MaxDelayRecords)
    \/ handleIncorrect(MaxDelayRecords)
    \/ onClose
    \/ TimeoutFires

\* The oldest callback waiting in setTimeout runs: its delay expires.
OldestTimeoutFires == TimeoutFires /\ timeouts' = Tail(timeouts)

SpecDelay == Init /\ [][NextDelay]_vars /\ WF_vars(OldestTimeoutFires)

(***************************************************************************)
(* A remote store configured late: the application was used without a       *)
(* remote store, handleCloudConfigSave then saved a configuration and        *)
(* reloaded the page; local storage holds the ledger logged so far and the   *)
(* remote collection, to which nothing was uploaded, is empty.              *)
(***************************************************************************)

MigratedInstallations ==
    { [localStorage |-> [participationRecords |-> Json(<<StoredRecord>>),
                         curriculum |-> Json(<<>>), firebaseConfig |-> TRUE,
                         full |-> FALSE, activityRecords |-> Absent],
       cloud |-> RemoteStore("ok", <<>>)] }

InitMigrated == Installed(MigratedInstallations)

NextMigrated ==
    \/ init
    \/ initAccessChecked
    \/ initCurriculumFetched
    \/ initParticipationFetched
    \/ saveParticipationToCloud
    \/ onAdminLogin
    \/ exitToClassroom(SessionDates)
    \/ handleSubmit(TaughtGrades)
    \/ pickStudent
    \/ StartTimer
    \/ handleCorrect(MaxMigratedRecords)
    \/ handleIncorrect(MaxMigratedRecords)
    \/ TimeoutFires

SpecMigrated == InitMigrated /\ [][NextMigrated]_vars

(***************************************************************************)
(* The clock: the application without a remote store.  The teacher draws a  *)
(* name in an activity that shows a quiz and judges it while the ledger     *)
(* holds no record of this run; while the result is displayed the teacher   *)
(* answers quiz questions; the callback of the judgment runs in the         *)
(* millisecond of the last of these answers or later.  Records are deleted  *)
(* one by one in the diary log.                                             *)
(***************************************************************************)

NextClock ==
    \/ init
    \/ onAdminLogin
    \/ exitToClassroom(SessionDates)
    \/ handleSubmit(TaughtGrades)
    \/ openActivity
    \/ handleBack
    \/ openDiaryLog
    \/ pickStudent
    \/ StartTimer
    \/ /\ idsOf(participationRecords) = {}
       /\ handleCorrect(MaxClockRecords)
    \/ /\ idsOf(participationRecords) = {}
       /\ handleIncorrect(MaxClockRecords)
    \/ /\ timeouts # <<>>
       /\ handleNext(MaxClockRecords)
    \/ TimeoutFiresAt({Later, Same})
    \/ handleDeleteRecord

SpecClock == Init /\ [][NextClock]_vars

(***************************************************************************)
(* The runs of a quiz: the application without a remote store; the teacher  *)
(* starts a session, opens an activity, draws students and answers the      *)
(* questions of its quiz up to the results, and goes back to the menu.      *)
(***************************************************************************)

InitActivity == Installed(LocalInstallations)

NextActivity ==
    \/ init
    \/ onAdminLogin
    \/ exitToClassroom(SessionDates)
    \/ handleSubmit(TaughtGrades)
    \/ openActivity
    \/ handleBack
    \/ pickStudent
    \/ onClose
    \/ handleNext(MaxQuizRecords)
    \/ logActivityEffect(MaxActivityRecords)

SpecActivity == InitActivity /\ [][NextActivity]_vars

(***************************************************************************)
(* The dashboard: the application without a remote store, the saved         *)
(* curriculum holding the profile of a student who has taken the baseline.  *)
(* The teacher sets feature toggles and module assignments in the admin     *)
(* console and logs out; a student of the class logs in and opens a module. *)
(***************************************************************************)

DashboardInstallations ==
    { [localStorage |-> [participationRecords |-> Json(<<>>),
                         curriculum |-> Json(<<[name |-> "Amy", baselineTaken |-> TRUE]>>),
                         firebaseConfig |-> FALSE, full |-> FALSE,
                         activityRecords |-> Absent],
       cloud |-> RemoteStore("ok", <<>>)] }

InitDashboard == Installed(DashboardInstallations)

NextDashboard ==
    \/ init
    \/ onAdminLogin
    \/ toggleFeature
    \/ handleAssign(TaughtGrades, MaxAssignments)
    \/ handleClearAssignments
    \/ logOut
    \/ handleStudentLoginSuccess(TaughtGrades)
    \/ openModule

SpecDashboard == InitDashboard /\ [][NextDashboard]_vars

(***************************************************************************)
(* Reset Session: the application without a remote store, reloaded during   *)
(* a session, so that local storage holds a record of that session, which   *)
(* is in the ledger until Reset Session takes it out.  The teacher starts   *)
(* the session again, draws, times and judges, and presses Reset Session    *)
(* at any moment; once the session was reset the teacher starts no timer.   *)
(***************************************************************************)

\* The record of the session logged before the reload.
EarlierRecord ==
    [id |-> 0, studentName |-> "Bo", grade |-> "O", date |-> "2024-01-01",
     period |-> NumberPeriod(1), durationSeconds |-> 0, score |-> 1100,
     isCorrect |-> TRUE]

ResetInstallations ==
    { [localStorage |-> [participationRecords |-> Json(<<EarlierRecord>>),
                         curriculum |-> Json(<<>>), firebaseConfig |-> FALSE,
                         full |-> FALSE, activityRecords |-> Absent],
       cloud |-> RemoteStore("ok", <<>>)] }

InitReset == Installed(ResetInstallations)

\* Reset Session has not been pressed since the reload.
notReset == \E i \in 1..Len(participationRecords) : participationRecords[i] = EarlierRecord

NextReset ==
    \/ init
    \/ onAdminLogin
    \/ exitToClassroom(SessionDates)
    \/ handleSubmit(TaughtGrades)
    \/ pickStudent
    \/ /\ notReset
       /\ StartTimer
    \/ handleCorrect(MaxResetRecords)
    \/ handleIncorrect(MaxResetRecords)
    \/ onClose
    \/ handleResetLeaderboard
    \/ TimeoutFires

SpecReset == InitReset /\ [][NextReset]_vars

(***************************************************************************)
(* The quota of local storage: the application without a remote store, a    *)
(* ledger in local storage, a curriculum saved or not, and local storage    *)
(* with room or with its quota reached; the teacher edits the curriculum,   *)
(* starts a session, draws, judges and runs a quiz.                         *)
(***************************************************************************)

QuotaInstallations ==
    { [localStorage |-> [participationRecords |-> Json(<<StoredRecord>>),
                         curriculum |-> saved, firebaseConfig |-> FALSE, full |-> full,
                         activityRecords |-> Absent],
       cloud |-> RemoteStore("ok", <<>>)] :
      saved \in {Absent, Json(<<>>)}, full \in BOOLEAN }

InitQuota == Installed(QuotaInstallations)

NextQuota ==
    \/ init
    \/ onAdminLogin
    \/ toggleSpecialNeeds(TaughtGrades, MaxProfiles)
    \/ exitToClassroom(SessionDates)
    \/ handleSubmit(TaughtGrades)
    \/ openActivity
    \/ pickStudent
    \/ StartTimer
    \/ handleCorrect(MaxQuotaRecords)
    \/ handleIncorrect(MaxQuotaRecords)
    \/ TimeoutFires
    \/ handleNext(MaxQuotaRecords)
    \/ onClose

SpecQuota == InitQuota /\ [][NextQuota]_vars

(***************************************************************************)
(* Weighted pool generator.                                                 *)
(***************************************************************************)

\* The students of a roster.
NamesOf(roster) == {roster[i] : i \in 1..Len(roster)}

\* The student is flagged isSpecialNeeds in the profiles.
Flagged(studentProfiles, student) ==
    \E i \in 1..Len(studentProfiles) :
        studentProfiles[i].name = student /\ studentProfiles[i].isSpecialNeeds

\* How often a name is in a pool.
Occurrences(pool, student) == Cardinality({i \in 1..Len(pool) : pool[i] = student})

\* N + 3K entries, a flagged student four times, any other student of the
\* roster once, nobody else.
Weighted(pool, roster, studentProfiles) ==
    LET flagged == {student \in NamesOf(roster) : Flagged(studentProfiles, student)}
    IN  /\ Len(pool) = Len(roster) + 3 * Cardinality(flagged)
        /\ \A student \in NamesOf(roster) :
               Occurrences(pool, student) = IF student \in flagged THEN 4 ELSE 1
        /\ \A i \in 1..Len(pool) : pool[i] \in NamesOf(roster)

DecayedScore(t) == (1000 * (180000 - t)) \div 177000

\* C2: while the timer runs, the live score after a tick at elapsed time t is
\* 1000 for t <= 3000, max(0, floor(1000 * (1 - (t - 3000) / 177000))) for
\* 3000 < t < 180000 and 0 from 180000 on, and it is an integer in 0..1000.
C2_LiveScoreFollowsDecay ==
    popup.started =>
        /\ popup.scoreDisplay \in 0..1000
        /\ popup.scoreDisplay =
              IF popup.msElapsed <= 3000 THEN 1000
              ELSE IF popup.msElapsed < 180000
                   THEN IF DecayedScore(popup.msElapsed) > 0
                        THEN DecayedScore(popup.msElapsed) ELSE 0
              ELSE 0

\* C3: every record of the ledger with isCorrect false has score 0, whatever
\* the elapsed time and the live score at the judgment, appended by the
\* popup or by the quiz.
C3_IncorrectScoresZero ==
    \A i \in 1..Len(participationRecords) :
        ~participationRecords[i].isCorrect =>
            /\ "score" \in DOMAIN participationRecords[i]
            /\ participationRecords[i].score = 0

\* An incorrect record of the popup, judged when the live score had decayed,
\* and an incorrect record of the quiz are in the ledger.
C3_Witness ==
    \E i, j \in 1..Len(participationRecords) :
        /\ ~participationRecords[i].isCorrect
        /\ participationRecords[i].durationSeconds > gracePeriod
        /\ participationRecords[i].durationSeconds \notin QuizDurations
        /\ ~participationRecords[j].isCorrect
        /\ participationRecords[j].durationSeconds \in QuizDurations

\* C4: Correct pressed at live score s hands over s + floor(s / 10) points,
\* and the record appended for that judgment is correct and has that score.
C4_CorrectAwardsBonus ==
    [][/\ (Len(timeouts') > Len(timeouts) /\ timeouts'[Len(timeouts')].isCorrect) =>
            timeouts'[Len(timeouts')].points =
                popup.scoreDisplay + (popup.scoreDisplay \div 10)
       /\ (Len(timeouts') < Len(timeouts) /\ timeouts[1].isCorrect) =>
            /\ Len(participationRecords') = Len(participationRecords) + 1
            /\ participationRecords'[Len(participationRecords')].isCorrect
            /\ participationRecords'[Len(participationRecords')].score = timeouts[1].points
            /\ participationRecords'[Len(participationRecords')].studentName =
                  timeouts[1].student]_vars

\* A record of 880 points is in the ledger: Correct at live score 800.
C4_Witness ==
    \E i \in 1..Len(participationRecords) :
        /\ participationRecords[i].isCorrect
        /\ "score" \in DOMAIN participationRecords[i]
        /\ participationRecords[i].score = 880

(***************************************************************************)
(* Session aggregator.                                                      *)
(***************************************************************************)

\* The record is of another day, grade or period (as a number) than the
\* session.
OtherSession(r, session) ==
    \/ r.date # session.date
    \/ r.grade # session.grade
    \/ r.period[2] # session.period[2]

\* The ledger without its i-th record.
Without(records, i) == SubSeq(records, 1, i - 1) \o SubSeq(records, i + 1, Len(records))

\* C5: a record whose date, grade or period (compared as numbers) is not the
\* current session's contributes nothing: the leaderboard of the ledger is
\* the leaderboard of the ledger without that record.
C5_OtherSessionsIgnored ==
    sessionInfo # NoSession =>
        \A i \in 1..Len(participationRecords) :
            OtherSession(participationRecords[i], sessionInfo) =>
                leaderboardData = leaderboardOf(Without(participationRecords, i), sessionInfo)

\* A session is current, the leaderboard shows a student, and the ledger
\* holds a correct record with a score of that student for another period.
C5_Witness ==
    /\ sessionInfo # NoSession
    /\ Len(leaderboardData) = 1
    /\ \E i \in 1..Len(participationRecords) :
           /\ participationRecords[i].studentName = leaderboardData[1].name
           /\ participationRecords[i].date = sessionInfo.date
           /\ participationRecords[i].grade = sessionInfo.grade
           /\ participationRecords[i].period[2] # sessionInfo.period[2]
           /\ "isCorrect" \in DOMAIN participationRecords[i]
           /\ participationRecords[i].isCorrect

\* The records that count for the session: of its day, grade and period,
\* with isCorrect true.
Counted(r, session) ==
    /\ ~OtherSession(r, session)
    /\ "isCorrect" \in DOMAIN r
    /\ r.isCorrect = TRUE

\* The sum, over the first n records, of the scores of the student's counted
\* records, a record without score counting 1.
RECURSIVE TotalOf(_, _, _, _)
TotalOf(records, session, student, n) ==
    IF n = 0 THEN 0
    ELSE TotalOf(records, session, student, n - 1)
         + IF Counted(records[n], session) /\ records[n].studentName = student
           THEN IF "score" \in DOMAIN records[n] THEN records[n].score ELSE 1
           ELSE 0

\* C6: the leaderboard has exactly one entry per student with a counted
\* record, the entry's score is the sum of the scores of the student's counted
\* records (1 for a record without score), and the entries are in
\* non-increasing order of score.
C6_LeaderboardSums ==
    sessionInfo # NoSession =>
        /\ {leaderboardData[i].name : i \in 1..Len(leaderboardData)} =
              {participationRecords[k].studentName :
                  k \in {j \in 1..Len(participationRecords) :
                            Counted(participationRecords[j], sessionInfo)}}
        /\ \A i, j \in 1..Len(leaderboardData) :
               /\ i # j => leaderboardData[i].name # leaderboardData[j].name
               /\ i < j => leaderboardData[i].score >= leaderboardData[j].score
        /\ \A i \in 1..Len(leaderboardData) :
               leaderboardData[i].score =
                   TotalOf(participationRecords, sessionInfo, leaderboardData[i].name,
                           Len(participationRecords))

\* Two students on the leaderboard: the one whose two records without score
\* come first in the ledger is shown second, with 2 points.
C6_Witness ==
    /\ sessionInfo # NoSession
    /\ Len(participationRecords) = 3
    /\ Len(leaderboardData) = 2
    /\ leaderboardData[1].score > leaderboardData[2].score
    /\ participationRecords[1].studentName = leaderboardData[2].name
    /\ participationRecords[2].studentName = leaderboardData[2].name
    /\ "score" \notin DOMAIN participationRecords[1]
    /\ leaderboardData[2].score = 2

(***************************************************************************)
(* Ledger.                                                                  *)
(***************************************************************************)

\* The record is of the session's day, grade and period.
OfSession(r, session) == ~OtherSession(r, session)

\* C7: after Reset Session for the current session, with or without a remote
\* store, the ledger in memory and the ledger in local storage hold no record
\* of that session, its leaderboard is empty, and every record of another
\* session that was in the ledger in memory is still in it.
C7_ResetKeepsOtherSessions ==
    [][handleResetLeaderboard =>
          /\ \A i \in 1..Len(participationRecords') :
                 ~OfSession(participationRecords'[i], sessionInfo)
          /\ \A i \in 1..Len(getParticipationRecordsFromStorage') :
                 ~OfSession(getParticipationRecordsFromStorage'[i], sessionInfo)
          /\ leaderboardData' = <<>>
          /\ \A i \in 1..Len(participationRecords) :
                 OtherSession(participationRecords[i], sessionInfo) =>
                     \E j \in 1..Len(participationRecords') :
                         participationRecords'[j] = participationRecords[i]]_vars

(***************************************************************************)
(* End to end.                                                              *)
(***************************************************************************)

C9_PickPopsFront ==
    [][/\ (/\ activeStudent' # Null
           /\ activeStudent' # activeStudent \/ remainingPool' # remainingPool) =>
              /\ remainingPool # <<>>
              /\ activeStudent' = Head(remainingPool)
              /\ remainingPool' = Tail(remainingPool)
              /\ Len(remainingPool') = Len(remainingPool) - 1
       /\ timeouts' # timeouts => remainingPool' = remainingPool]_vars

\* A student drawn from a pool of five has been judged and the log is
\* pending: four names are left.
C9_Witness ==
    /\ activeStudent # Null
    /\ timeouts # <<>>
    /\ Len(remainingPool) = 4

\* The pool resetPicker builds has N + 3K entries.
FullPoolSize ==
    Len(studentsByGrade[sessionInfo.grade])
    + 3 * Cardinality({student \in NamesOf(studentsByGrade[sessionInfo.grade]) :
                          Flagged(curriculum.studentProfiles, student)})

\* C10: one pick with nobody active and the pool empty refills the pool and
\* draws: right after it a student is active and the pool holds N + 3K - 1
\* entries.
C10_PickOnEmptyPoolDraws ==
    [][(pickStudent /\ activeStudent = Null /\ remainingPool = <<>>) =>
          /\ activeStudent' # Null
          /\ Len(remainingPool') = FullPoolSize - 1]_vars

(***************************************************************************)
(* Picker: the exhausted pool.                                              *)
(***************************************************************************)

\* C11: with a session started a pick on an empty pool leaves the pool
\* refilled, and while the teacher keeps picking an empty pool always leads
\* to a student being active again, drawn from the refilled pool.
C11_EmptyPoolRefills ==
    /\ [][(pickStudent /\ remainingPool = <<>>) => remainingPool' # <<>>]_vars
    /\ (sessionInfo # NoSession /\ remainingPool = <<>>)
           ~> (activeStudent # Null /\ Len(remainingPool) = FullPoolSize - 1)

\* Every name of the pool has been drawn and judged, and a student is active
\* again, the first drawn from the refilled pool.
C11_Witness ==
    /\ sessionInfo # NoSession
    /\ Len(participationRecords) = Len(getParticipationRecordsFromStorage)
    /\ Len(SelectSeq(participationRecords, LAMBDA r : "durationSeconds" \in DOMAIN r))
           = FullPoolSize
    /\ timeouts = <<>>
    /\ activeStudent # Null
    /\ Len(remainingPool) = FullPoolSize - 1

\* C12: Pick Name pressed while a student is active leaves the pool and the
\* active student as they are.
C12_PickOnlyInIdle ==
    [][(pickStudent /\ activeStudent # Null) =>
          UNCHANGED <<remainingPool, activeStudent>>]_vars

\* C13: Absent is offered only while the timer was not started and no
\* judgment was made; it appends no record to the ledger or to local
\* storage, hands no log to a timeout, leaves nobody active and leaves the
\* pool as it is, the drawn name not put back.
C13_AbsentDiscardsDraw ==
    [][handleAbsent =>
          /\ ~popup.started /\ popup.finalResult = NoResult
          /\ participationRecords' = participationRecords
          /\ localStorage' = localStorage
          /\ timeouts' = timeouts
          /\ activeStudent' = Null
          /\ remainingPool' = remainingPool]_vars

\* The first name drawn in a session was discarded: nobody is active, the
\* popup is closed, its state was never touched, one name is gone from the
\* pool and the ledger holds what it held when the application started.
C13_Witness ==
    /\ sessionInfo # NoSession
    /\ activeStudent = Null
    /\ ~activeStudentModalVisible
    /\ popup = FreshPopup
    /\ timeouts = <<>>
    /\ Len(remainingPool) = FullPoolSize - 1
    /\ participationRecords = <<StoredRecord>>

(***************************************************************************)
(* Judgment and timer.                                                      *)
(***************************************************************************)

\* C14: while the result of a judgment is displayed, the ledger already
\* holds the record of that judgment: of the active student, with the
\* elapsed time and the outcome shown.
C14_RecordBeforeDisplay ==
    (Mounted /\ popup.finalResult # NoResult) =>
        \E i \in 1..Len(participationRecords) :
            /\ participationRecords[i].studentName = activeStudent
            /\ "durationSeconds" \in DOMAIN participationRecords[i]
            /\ participationRecords[i].durationSeconds = popup.msElapsed
            /\ participationRecords[i].isCorrect = (popup.finalResult.kind = "correct")

\* C15: the timer starts only when Start Timer is pressed: a student just
\* drawn has a timer that is not started, at 0 ms and 1000 points; until
\* Start Timer is pressed the elapsed time stays 0 and the score 1000, and
\* no judgment can be made.
C15_TimerStartsOnPress ==
    [][/\ (activeStudent' # Null /\ activeStudent' # activeStudent) =>
              /\ ~popup'.started
              /\ popup'.msElapsed = 0
              /\ popup'.scoreDisplay = 1000
       /\ (~popup.started /\ popup'.started) => StartTimer
       /\ (~popup.started /\ popup.finalResult = NoResult) =>
              /\ popup.msElapsed = 0 /\ popup.scoreDisplay = 1000
              /\ timeouts' = timeouts \/ Len(timeouts') < Len(timeouts)]_vars

\* C16: once Correct or Incorrect is pressed the elapsed time and the live
\* score of the popup do not change any more; the judgment hands over the
\* elapsed time and the points of the live score of that moment, and the
\* record appended after the display delay carries that elapsed time and
\* those points (0 for Incorrect).
C16_JudgmentFreezesTimer ==
    [][/\ (popup.finalResult # NoResult /\ Mounted') => popup' = popup
       /\ Len(timeouts') > Len(timeouts) =>
              LET t == timeouts'[Len(timeouts')]
              IN  /\ ~popup'.started
                  /\ popup'.msElapsed = popup.msElapsed
                  /\ t.seconds = popup.msElapsed
                  /\ t.points = IF t.isCorrect
                                THEN popup.scoreDisplay + (popup.scoreDisplay \div 10)
                                ELSE 0
       /\ Len(timeouts') < Len(timeouts) =>
              \E i \in 1..Len(timeouts) :
                  LET record == participationRecords'[Len(participationRecords')]
                  IN  /\ Len(participationRecords') = Len(participationRecords) + 1
                      /\ record.durationSeconds = timeouts[i].seconds
                      /\ record.isCorrect = timeouts[i].isCorrect
                      /\ record.score = IF timeouts[i].isCorrect THEN timeouts[i].points
                                        ELSE 0]_vars

\* Correct was pressed at 10.0 s, when the live score had begun to decay, and
\* the record of that judgment is in the ledger after the display delay.
C16_Witness ==
    /\ timeouts = <<>>
    /\ ~Mounted
    /\ \E i \in 1..Len(participationRecords) :
           /\ "durationSeconds" \in DOMAIN participationRecords[i]
           /\ participationRecords[i].durationSeconds = 10000
           /\ participationRecords[i].isCorrect
           /\ participationRecords[i].score = 960 + 96

(***************************************************************************)
(* Local storage.                                                           *)
(***************************************************************************)

\* The participationRecords key is absent, empty or holds text that is no
\* JSON.
Unreadable == localStorage.participationRecords.state \in {"absent", "empty", "malformed"}

\* C17: when the participationRecords key is absent, empty or no valid JSON,
\* the ledger read from local storage is the empty sequence, and so is the
\* ledger in memory once the start-up has read it.
C17_UnreadableLedgerIsEmpty ==
    Unreadable =>
        /\ getParticipationRecordsFromStorage = <<>>
        /\ initStep = "done" => participationRecords = <<>>

\* The key held text that is no JSON; the start-up went through, the ledger
\* is empty and a session has been started.
C17_Witness ==
    /\ localStorage.participationRecords = Malformed
    /\ initStep = "done"
    /\ participationRecords = <<>>
    /\ sessionInfo # NoSession

(***************************************************************************)
(* Session form.                                                            *)
(***************************************************************************)

\* C19: every session started is of a day that is neither a Friday nor a
\* Saturday, whatever day the form was first shown on and whatever dates were
\* entered before the submit.
C19_SessionOnSchoolDay ==
    sessionInfo # NoSession => getUTCDay(sessionInfo.date) \notin {5, 6}

(***************************************************************************)
(* Remote mirroring.                                                        *)
(***************************************************************************)

\* The record is in a ledger.
Holds(records, record) == \E i \in 1..Len(records) : records[i] = record

\* C18: with the remote store in use, a record whose remote write is started
\* is in the ledger in memory and in local storage, and a remote write that
\* fails, succeeds or stays in flight changes nothing but the remote store:
\* the ledger, local storage, the picker and the popup are left as they are.
C18_RemoteFailureKeepsRecord ==
    [][/\ Len(cloud'.pending) > Len(cloud.pending) =>
              LET record == cloud'.pending[Len(cloud'.pending)]
              IN  /\ Holds(participationRecords', record)
                  /\ Holds(getParticipationRecordsFromStorage', record)
       /\ Len(cloud'.pending) < Len(cloud.pending) =>
              UNCHANGED <<view, sessionInfo, curriculum, participationRecords,
                          activeStudent, remainingPool, activeStudentModalVisible, popup,
                          timeouts, localStorage>>]_vars

\* A remote write has failed and none has succeeded; the record logged is in
\* the ledger and in local storage, and the next student has been drawn and
\* their timer started.
C18_Witness ==
    /\ cloud.errorLogged
    /\ cloud.pending = <<>>
    /\ cloud.participation = <<StoredRecord>>
    /\ Len(participationRecords) = 2
    /\ "durationSeconds" \in DOMAIN participationRecords[2]
    /\ Holds(getParticipationRecordsFromStorage, participationRecords[2])
    /\ activeStudent # Null
    /\ activeStudent # participationRecords[2].studentName
    /\ popup.started

(***************************************************************************)
(* Start-up.                                                                *)
(***************************************************************************)

\* C20: with a remote store configured that denies access, once the start-up
\* has run to its end the curriculum is loaded (the application is past
\* 'Loading...') and the ledger in memory is the ledger of local storage.
C20_DeniedDegradesToLocal ==
    (localStorage.firebaseConfig /\ cloud.access = "permission-denied" /\ initStep = "done") =>
        /\ curriculum.loaded
        /\ participationRecords = getParticipationRecordsFromStorage

(***************************************************************************)
(* The quota of local storage.                                              *)
(***************************************************************************)

\* C21: with the quota of local storage reached, a curriculum update leaves
\* the new curriculum in memory and a record logged (by the callback of a
\* judgment or by a quiz answer) leaves the ledger in memory one record
\* longer, and the application keeps running.
C21_QuotaKeepsMemory ==
    [][/\ (localStorage.full /\ toggleSpecialNeeds(TaughtGrades, MaxProfiles)) =>
              /\ curriculum'.loaded
              /\ curriculum'.studentProfiles # curriculum.studentProfiles
              /\ initStep' = "done"
       /\ (localStorage.full /\ (TimeoutFires \/ handleNext(MaxQuotaRecords))) =>
              /\ Len(participationRecords') = Len(participationRecords) + 1
              /\ initStep' = "done"]_vars

(***************************************************************************)
(* The display delay.                                                       *)
(***************************************************************************)

\* The record logParticipation appends for the callback t of a judgment.
RecordOf(t, record) ==
    /\ record.studentName = t.student
    /\ record.date = t.session.date
    /\ record.grade = t.session.grade
    /\ record.period = t.session.period
    /\ record.isCorrect = t.isCorrect
    /\ record.durationSeconds = t.seconds

\* C22: a judgment hands exactly one callback to setTimeout, for the student
\* active and the session current at the judgment; nothing the teacher does
\* during the display delay changes or removes a pending callback; a
\* callback that runs appends exactly one record to the ledger, of that
\* student and that session; and every pending callback runs: while
\* callbacks are pending, callbacks go on running, the oldest first.
C22_JudgmentLogsOnce ==
    /\ [][/\ Len(timeouts') > Len(timeouts) =>
                 /\ timeouts' = Append(timeouts, timeouts'[Len(timeouts')])
                 /\ activeStudent # Null
                 /\ sessionInfo # NoSession
                 /\ timeouts'[Len(timeouts')].student = activeStudent
                 /\ timeouts'[Len(timeouts')].session = sessionInfo
                 /\ participationRecords' = participationRecords
          /\ Len(timeouts') = Len(timeouts) => timeouts' = timeouts
          /\ Len(timeouts') < Len(timeouts) =>
                 \E i \in 1..Len(timeouts) :
                     /\ timeouts' = SubSeq(timeouts, 1, i - 1)
                                       \o SubSeq(timeouts, i + 1, Len(timeouts))
                     /\ Len(participationRecords') = Len(participationRecords) + 1
                     /\ SubSeq(participationRecords', 1, Len(participationRecords))
                            = participationRecords
                     /\ RecordOf(timeouts[i],
                                 participationRecords'[Len(participationRecords')])]_vars
    /\ \/ []<>(timeouts = <<>>)
       \/ []<><<OldestTimeoutFires>>_vars

\* A student of 'Grade 3 O' was judged; during the display delay the teacher
\* logged out and started a session of 'Grade 3 P' and drew a name of it; the
\* ledger holds the record of the student judged, of the session of
\* 'Grade 3 O', and no callback is pending.
C22_Witness ==
    /\ timeouts = <<>>
    /\ sessionInfo # NoSession
    /\ sessionInfo.grade = "P"
    /\ Len(remainingPool) = FullPoolSize - 1
    /\ activeStudent = Null
    /\ Len(participationRecords) = 2
    /\ "durationSeconds" \in DOMAIN participationRecords[2]
    /\ participationRecords[2].grade = "O"
    /\ participationRecords[2].studentName \in NamesOf(studentsByGrade.O)

(***************************************************************************)
(* The local store.                                                         *)
(***************************************************************************)

\* C23: whenever logParticipation appends a record to the ledger and writes
\* local storage, local storage holds afterwards every record it held
\* before, and the new record.
C23_LocalStoreAppendOnly ==
    [][(/\ Len(participationRecords') = Len(participationRecords) + 1
        /\ SubSeq(participationRecords', 1, Len(participationRecords)) = participationRecords
        /\ localStorage' # localStorage) =>
          /\ Holds(getParticipationRecordsFromStorage',
                   participationRecords'[Len(participationRecords')])
          /\ \A i \in 1..Len(getParticipationRecordsFromStorage) :
                 Holds(getParticipationRecordsFromStorage',
                       getParticipationRecordsFromStorage[i])]_vars

(***************************************************************************)
(* The pool within a session.                                               *)
(***************************************************************************)

\* C24: while the session stays the same, the pool changes only by a pick
\* (which takes the front name, or refills an exhausted pool), by Refill
\* Pool or by Reset Session, and a step that changes the curriculum leaves
\* the pool and the active student as they are.
C24_PoolChangesByDrawOrReset ==
    [][(sessionInfo # NoSession /\ sessionInfo' = sessionInfo) =>
          /\ remainingPool' # remainingPool =>
                 \/ pickStudent
                 \/ handleResetPool
                 \/ handleResetLeaderboard
          /\ curriculum' # curriculum =>
                 UNCHANGED <<remainingPool, activeStudent>>]_vars

(***************************************************************************)
(* Where records come from.                                                 *)
(***************************************************************************)

\* C25: once the start-up has read the ledger, the ledger grows only when the
\* callback of a judgment made in the popup runs.
C25_OnlyJudgmentsAppend ==
    [][(initStep = "done" /\ Len(participationRecords') > Len(participationRecords)) =>
          TimeoutFires]_vars

(***************************************************************************)
(* Record ids.                                                              *)
(***************************************************************************)

\* C26: no two records of the ledger carry the same id, also when two of
\* them were built in the same millisecond.
C26_IdsUnique ==
    \A i, j \in 1..Len(participationRecords) :
        ("id" \in DOMAIN participationRecords[i]
         /\ "id" \in DOMAIN participationRecords[j]
         /\ participationRecords[i].id = participationRecords[j].id) => i = j

(***************************************************************************)
(* The display delay and the next draw.                                     *)
(***************************************************************************)

\* C27: when the callback of a judgment runs after the popup was closed and
\* another student was drawn, whose popup shows no result, that student
\* stays active and the popup stays as it is: shown, with its timer state.
C27_DelayedLogKeepsNextDraw ==
    [][(/\ TimeoutFires
        /\ Mounted
        /\ popup.finalResult = NoResult
        /\ \A i \in 1..Len(timeouts) : timeouts[i].student # activeStudent) =>
          UNCHANGED <<activeStudent, activeStudentModalVisible, popup>>]_vars

(***************************************************************************)
(* Reset Session and the display delay.                                     *)
(***************************************************************************)

\* C28: once Reset Session was pressed, and as long as no student drawn
\* after it is judged, the leaderboard of the session is empty: a judgment
\* made before the reset adds nothing to it.
C28_ResetLeaderboardStaysEmpty ==
    (initStep = "done" /\ sessionInfo # NoSession /\ ~notReset) => leaderboardData = <<>>

(***************************************************************************)
(* The activity record of a run.                                            *)
(***************************************************************************)

\* C29: a run of a quiz that reached its results with a student active has
\* one activity record: once the effect of Quiz has logged the run for the
\* active student, it appends no further record for that student while the
\* results stay shown.
C29_OneActivityRecordPerRun ==
    [][(/\ logActivityEffect(MaxActivityRecords)
        /\ quiz.logActivity # NoCallback
        /\ quiz.logActivity[1] = activeStudentProp) =>
          activityRecords' = activityRecords]_vars

(***************************************************************************)
(* The modules of the dashboard.                                            *)
(***************************************************************************)

\* The feature toggle of a module: the one the menu of the teacher shows the
\* module under.
toggleOfModule ==
    [writing |-> "writingChecker", grammar |-> "grammarPractice",
     reading |-> "readingComprehension", coverTheBasics |-> "coverTheBasics",
     learnToWrite |-> "learnToWrite", guidedWriting |-> "guidedWriting",
     vocabulary |-> "vocabularyPractice", textLeveler |-> "textLeveler",
     spellingStation |-> "spellingStation", diaryLog |-> "diaryLog"]

\* C30: the dashboard of a student who has taken the baseline and has no
\* module assignment shows every module whose feature toggle is enabled.
C30_EnabledModulesShown ==
    (/\ view = "studentDashboard"
     /\ curriculum.loaded
     /\ activeStudentName # Null
     /\ baselineTaken(curriculum, activeStudentName)
     /\ myAssignments(curriculum, activeStudentName) = <<>>) =>
        \A moduleId \in ModuleId :
            curriculum.featureToggles[toggleOfModule[moduleId]] =>
                \E i \in 1..Len(dashboardModules(curriculum, activeStudentName)) :
                    dashboardModules(curriculum, activeStudentName)[i] = moduleId

====
